---- MODULE Spec2Model ----
(***************************************************************************)
(* BentoStack: the compatibility scoring engine (VibeEngine) and the graph *)
(* connectivity helpers it is built on.                                    *)
(*                                                                         *)
(* Representation.                                                         *)
(*   - nodes is the FlowNode[] array, kept as a function from node id to   *)
(*     data.toolId.  Every lookup in the engine is nodes.find(n => n.id    *)
(*     === x), so only the id -> toolId mapping is observable.  An         *)
(*     undefined toolId is NoTool.                                         *)
(*   - edges is the FlowEdge[] array, a sequence of [id, source, target].  *)
(*   - nodeVibes / edgeVibes are the Record<...> maps, functions whose     *)
(*     DOMAIN is the set of keys present.  VibeNode.notes (display text)   *)
(*     is not kept; VibeEdge.reason is kept as a tuple of its parts.       *)
(*   - registry is registry.json (Library[] keyed by id, cf. byId); it is  *)
(*     fixed at construction and chosen in Init.                           *)
(*   - globalVibe is $derived, hence an operator over nodeVibes.           *)
(*   - usage and calls are history variables: how the engine has been      *)
(*     driven so far, and how many calls it has received.                  *)
(*   - Node and edge ids are unique within a list, as Svelte Flow requires *)
(*     of the arrays it renders.                                           *)
(*   - evidenceIndex is the EvidenceIndex handed to buildReportData, the   *)
(*     sequence of its packs in Object.entries order (the loader keys each *)
(*     pack by its ruleId); report is the ReportData last built (its tier  *)
(*     and findings).  A finding's texts are kept as what they name: the   *)
(*     node ids whose labels "what" quotes; claim texts are not kept.      *)
(*   - shareNodes / shareEdges are the arrays handed to serializeGraph,    *)
(*     serialized its result, encodedInput the string handed to            *)
(*     deserializeGraph and deserialized its result.  A JavaScript value   *)
(*     is a record tagged with its typeof.  An encoded string is kept as   *)
(*     its length and the text LZString maps it to; lzLength is the length *)
(*     LZString gives the compressed graph.                                *)
(***************************************************************************)
EXTENDS Integers, Sequences, FiniteSets, TLC

VARIABLES registry, nodes, edges, nodeVibes, edgeVibes, lastEvent, usage, calls,
          evidenceIndex, report,
          shareNodes, shareEdges, lzLength, serialized, encodedInput, deserialized,
          clock, bfsSeeds, traversal, selectedEdge, suggestions, snapshotNodes, manifests,
          urlInput, urlResults, packFile, loadedPack

\* the report builder's evidence index and the findings of the last report
reportVars == <<evidenceIndex, report, clock>>

\* the share codec's inputs and results
shareVars == <<shareNodes, shareEdges, lzLength, serialized, encodedInput, deserialized>>

\* the inputs and results of the helpers that are checked on their own: the
\* graph traversal, the swap suggestions, the manifest, the URL
\* canonicalization and the evidence loader
toolVars == <<bfsSeeds, traversal, selectedEdge, suggestions, snapshotNodes, manifests,
              urlInput, urlResults, packFile, loadedPack>>

vars == <<registry, nodes, edges, nodeVibes, edgeVibes, lastEvent, usage, calls,
          reportVars, shareVars, toolVars>>

-----------------------------------------------------------------------------
(* Bounds of the model *)

\* at most this many calls are made on one engine
MaxCalls == 3

NodeIds == {"n1", "n2", "n3"}
EdgeIds == {"e1", "e2"}

\* tool ids present in the registry, and one id the registry does not know
ToolIds == {"t1", "t2"}
UnknownTool == "tx"
NoTool == "none"

\* base scores a library may declare (Library.vibe_score, 0-100)
VibeScores == {30, 95}

-----------------------------------------------------------------------------
(* vibe-rules.ts *)

bestBonus == 12
frictionPenalty == 35
unknownPenalty == 3

-----------------------------------------------------------------------------
(* registry/schema.ts *)

Library == [vibe_score : VibeScores, best_with : SUBSET ToolIds, friction_with : SUBSET ToolIds]

\* toMap(this.registry): library id -> Library.  t1 is a high-scoring and t2
\* a low-scoring library; what each declares about the other is free.
Registries ==
  {r \in [ToolIds -> Library] :
     /\ r["t1"].vibe_score = 95 /\ r["t2"].vibe_score = 30
     /\ \A t \in ToolIds : t \notin r[t].best_with /\ t \notin r[t].friction_with}

-----------------------------------------------------------------------------
(* helpers *)

Max(a, b) == IF a >= b THEN a ELSE b
Min(a, b) == IF a <= b THEN a ELSE b

\* Math.round of the rational num/den (den > 0): nearest integer, halves up
MathRound(num, den) == (2 * num + den) \div (2 * den)

\* clamp01_100 without the lower limit
clamp01_100_noFloor(num, den) == Min(100, MathRound(num, den))

clamp01_100(num, den) == Max(0, Min(100, MathRound(num, den)))

RECURSIVE SetToSeq(_)
SetToSeq(S) == IF S = {} THEN <<>>
               ELSE LET x == CHOOSE y \in S : TRUE IN <<x>> \o SetToSeq(S \ {x})

RECURSIVE SumOver(_, _)
SumOver(f, S) == IF S = {} THEN 0
                 ELSE LET x == CHOOSE y \in S : TRUE IN f[x] + SumOver(f, S \ {x})

\* nodes.find(n => n.id === id)?.data?.toolId
toolIdOf(ns, id) == IF id \in DOMAIN ns THEN ns[id] ELSE NoTool

\* toolId ? this.byId.get(toolId) : undefined, as "is it defined"
hasLib(t) == t \in DOMAIN registry

-----------------------------------------------------------------------------
(* graph/graph-utils.ts *)

buildAdjacency(es) ==
  LET idx == DOMAIN es
      V == {es[i].source : i \in idx} \cup {es[i].target : i \in idx}
  IN [v \in V |-> {es[i].target : i \in {j \in idx : es[j].source = v}}
                  \cup {es[i].source : i \in {j \in idx : es[j].target = v}}]

\* the seeding loop: push every seed not yet seen
RECURSIVE seedQueue(_, _, _)
seedQueue(seeds, seen, q) ==
  IF seeds = <<>> THEN [seen |-> seen, q |-> q]
  ELSE LET s == Head(seeds)
       IN IF s \in seen THEN seedQueue(Tail(seeds), seen, q)
          ELSE seedQueue(Tail(seeds), seen \cup {s}, Append(q, s))

\* the while (q.length) loop
RECURSIVE bfs(_, _, _)
bfs(adjacency, seen, q) ==
  IF q = <<>> THEN seen
  ELSE LET cur == Head(q)
           nbs == IF cur \in DOMAIN adjacency THEN adjacency[cur] ELSE {}
           fresh == nbs \ seen
       IN bfs(adjacency, seen \cup fresh, Tail(q) \o SetToSeq(fresh))

connectedComponent(adjacency, seeds) ==
  LET s0 == seedQueue(seeds, {}, <<>>)
  IN bfs(adjacency, s0.seen, s0.q)

-----------------------------------------------------------------------------
(* vibe/vibe-engine.svelte.ts: scoring *)

\* scoreEdge that tests affinity before friction
scoreEdge_nativeFirst(ns, a, b) ==
  LET aTool == toolIdOf(ns, a)
      bTool == toolIdOf(ns, b)
  IN IF ~hasLib(aTool) \/ ~hasLib(bTool)
       THEN [status |-> "NEUTRAL", reason |-> <<"Missing tool selection.">>]
     ELSE IF bTool \in registry[aTool].best_with \/ aTool \in registry[bTool].best_with
       THEN [status |-> "NATIVE", reason |-> <<aTool, "vibes with", bTool>>]
     ELSE IF bTool \in registry[aTool].friction_with \/ aTool \in registry[bTool].friction_with
       THEN [status |-> "COLLISION", reason |-> <<aTool, "friction with", bTool>>]
     ELSE [status |-> "NEUTRAL", reason |-> <<"No explicit relationship.">>]

\* scoreEdge that consults only the first tool's declarations
scoreEdge_oneWay(ns, a, b) ==
  LET aTool == toolIdOf(ns, a)
      bTool == toolIdOf(ns, b)
  IN IF ~hasLib(aTool) \/ ~hasLib(bTool)
       THEN [status |-> "NEUTRAL", reason |-> <<"Missing tool selection.">>]
     ELSE IF bTool \in registry[aTool].friction_with
       THEN [status |-> "COLLISION", reason |-> <<aTool, "friction with", bTool>>]
     ELSE IF bTool \in registry[aTool].best_with
       THEN [status |-> "NATIVE", reason |-> <<aTool, "vibes with", bTool>>]
     ELSE [status |-> "NEUTRAL", reason |-> <<"No explicit relationship.">>]

scoreEdge(ns, a, b) ==
  LET aTool == toolIdOf(ns, a)
      bTool == toolIdOf(ns, b)
  IN IF ~hasLib(aTool) \/ ~hasLib(bTool)
       THEN [status |-> "NEUTRAL", reason |-> <<"Missing tool selection.">>]
     ELSE IF bTool \in registry[aTool].friction_with \/ aTool \in registry[bTool].friction_with
       THEN [status |-> "COLLISION", reason |-> <<aTool, "friction with", bTool>>]
     ELSE IF bTool \in registry[aTool].best_with \/ aTool \in registry[bTool].best_with
       THEN [status |-> "NATIVE", reason |-> <<aTool, "vibes with", bTool>>]
     ELSE [status |-> "NEUTRAL", reason |-> <<"No explicit relationship.">>]

tierOf(clipped) ==
  IF clipped >= 80 THEN "GIGA"
  ELSE IF clipped >= 60 THEN "SOLID"
  ELSE IF clipped >= 40 THEN "SUS"
  ELSE "REKT"

scoreNode(ns, nodeId, adjacency) ==
  LET toolId == toolIdOf(ns, nodeId)
  IN IF nodeId \notin DOMAIN ns \/ ~hasLib(toolId)
       THEN [score |-> 0, status |-> "BROKEN"]
     ELSE
       LET lib == registry[toolId]
           neighbors == IF nodeId \in DOMAIN adjacency THEN adjacency[nodeId] ELSE {}
           known == {nb \in neighbors : hasLib(toolIdOf(ns, nb))}
           friction == {nb \in known : toolIdOf(ns, nb) \in lib.friction_with}
           best == {nb \in known \ friction : toolIdOf(ns, nb) \in lib.best_with}
           unknown == Cardinality(neighbors \ (friction \cup best))
           score == lib.vibe_score - frictionPenalty * Cardinality(friction)
                      + bestBonus * Cardinality(best) - unknown * unknownPenalty
           clipped == clamp01_100(score, 1)
       IN [score |-> clipped, status |-> tierOf(clipped)]

\* the for (const e of this.edges) loop of auditRipple, from index i on
RECURSIVE rippleEdges(_, _, _, _, _)
rippleEdges(ns, es, component, ev, i) ==
  IF i > Len(es) THEN ev
  ELSE LET e == es[i]
       IN IF e.source \notin component /\ e.target \notin component
            THEN rippleEdges(ns, es, component, ev, i + 1)
          ELSE rippleEdges(ns, es, component,
                 [k \in DOMAIN ev \cup {e.id} |->
                    IF k = e.id THEN scoreEdge(ns, e.source, e.target) ELSE ev[k]],
                 i + 1)

\* auditRipple that builds the next maps from empty ones instead of from
\* copies of the current ones
auditRipple_fromEmpty(ns, es, nv, ev, seedIds) ==
  LET adjacency == buildAdjacency(es)
      component == connectedComponent(adjacency, seedIds)
  IN [edgeVibes |-> rippleEdges(ns, es, component, <<>>, 1),
      nodeVibes |-> [id \in component |-> scoreNode(ns, id, adjacency)]]

\* auditRipple over the (already updated) nodes ns and edges es; yields the
\* next nodeVibes and edgeVibes
auditRipple(ns, es, nv, ev, seedIds) ==
  LET adjacency == buildAdjacency(es)
      component == connectedComponent(adjacency, seedIds)
  IN [edgeVibes |-> rippleEdges(ns, es, component, ev, 1),
      nodeVibes |-> [id \in DOMAIN nv \cup component |->
                       IF id \in component THEN scoreNode(ns, id, adjacency) ELSE nv[id]]]

auditAll(ns, es, nv, ev) == auditRipple(ns, es, nv, ev, SetToSeq(DOMAIN ns))

\* globalVibe that averages only the entries that are not BROKEN
globalVibe_skipBroken ==
  LET ids == {id \in DOMAIN nodeVibes : nodeVibes[id].status # "BROKEN"}
  IN IF Cardinality(ids) = 0 THEN 100
     ELSE clamp01_100(SumOver([id \in ids |-> nodeVibes[id].score], ids), Cardinality(ids))

globalVibe ==
  LET ids == DOMAIN nodeVibes
  IN IF Cardinality(ids) = 0 THEN 100
     ELSE clamp01_100(SumOver([id \in ids |-> nodeVibes[id].score], ids), Cardinality(ids))

-----------------------------------------------------------------------------
(* vibe/vibe-engine.svelte.ts: operations *)

\* usage records how the engine has been driven so far: "new" before any
\* call, "clean" after init as the first call followed only by calls that
\* name existing nodes and edges, "other" otherwise
usageAfter(ok) == IF ok THEN "clean" ELSE "other"

init(seedNodes, seedEdges) ==
  LET a == auditAll(seedNodes, seedEdges, nodeVibes, edgeVibes)
  IN /\ nodes' = seedNodes
     /\ edges' = seedEdges
     /\ lastEvent' = [type |-> "INIT"]
     /\ nodeVibes' = a.nodeVibes
     /\ edgeVibes' = a.edgeVibes
     /\ usage' = usageAfter(usage = "new")
     /\ UNCHANGED registry

updateTool(nodeId, toolId) ==
  LET ns == [n \in DOMAIN nodes |-> IF n = nodeId THEN toolId ELSE nodes[n]]
      a == auditRipple(ns, edges, nodeVibes, edgeVibes, <<nodeId>>)
  IN /\ nodes' = ns
     /\ lastEvent' = [type |-> "NODE_TOOL_CHANGED", nodeId |-> nodeId, toolId |-> toolId]
     /\ nodeVibes' = a.nodeVibes
     /\ edgeVibes' = a.edgeVibes
     /\ usage' = usageAfter(usage = "clean" /\ nodeId \in DOMAIN nodes)
     /\ UNCHANGED <<registry, edges>>

connectEdge(edge) ==
  LET es == Append(edges, edge)
      a == auditRipple(nodes, es, nodeVibes, edgeVibes, <<edge.source, edge.target>>)
  IN /\ edges' = es
     /\ lastEvent' = [type |-> "EDGE_CONNECTED", edgeId |-> edge.id,
                      source |-> edge.source, target |-> edge.target]
     /\ nodeVibes' = a.nodeVibes
     /\ edgeVibes' = a.edgeVibes
     /\ usage' = usageAfter(usage = "clean" /\ {edge.source, edge.target} \subseteq DOMAIN nodes)
     /\ UNCHANGED <<registry, nodes>>

\* removeEdge that re-audits from the removed edge's source only
removeEdge_sourceOnly(edgeId) ==
  LET hits == {i \in DOMAIN edges : edges[i].id = edgeId}
      es == SelectSeq(edges, LAMBDA e : e.id # edgeId)
      a == IF hits # {}
             THEN LET removed == edges[CHOOSE i \in hits : \A j \in hits : i <= j]
                  IN auditRipple(nodes, es, nodeVibes, edgeVibes, <<removed.source>>)
           ELSE auditAll(nodes, es, nodeVibes, edgeVibes)
  IN /\ edges' = es
     /\ lastEvent' = [type |-> "EDGE_REMOVED", edgeId |-> edgeId]
     /\ nodeVibes' = a.nodeVibes
     /\ edgeVibes' = a.edgeVibes
     /\ usage' = usageAfter(usage = "clean" /\ hits # {})
     /\ UNCHANGED <<registry, nodes>>

removeEdge(edgeId) ==
  LET hits == {i \in DOMAIN edges : edges[i].id = edgeId}
      es == SelectSeq(edges, LAMBDA e : e.id # edgeId)
      a == IF hits # {}
             THEN LET removed == edges[CHOOSE i \in hits : \A j \in hits : i <= j]
                  IN auditRipple(nodes, es, nodeVibes, edgeVibes, <<removed.source, removed.target>>)
           ELSE auditAll(nodes, es, nodeVibes, edgeVibes)
  IN /\ edges' = es
     /\ lastEvent' = [type |-> "EDGE_REMOVED", edgeId |-> edgeId]
     /\ nodeVibes' = a.nodeVibes
     /\ edgeVibes' = a.edgeVibes
     /\ usage' = usageAfter(usage = "clean" /\ hits # {})
     /\ UNCHANGED <<registry, nodes>>

-----------------------------------------------------------------------------
(* String.prototype.localeCompare and Array.prototype.sort *)

\* the strings the model compares, in collation order
Collation ==
  <<"", "docs", "Drizzle", "e1", "e2", "e3", "e4", "example.com", "https://", "Kysely",
    "n1", "n2", "n3", "next-edge-node-apis", "Next.js", "Path", "Postgres", "Prisma",
    "prisma-accelerate-http",
    "prisma-orm-edge-incompatibility", "Sequelize", "Turso", "turso-libsql-edge-native",
    "TypeORM", "use-edge-compatible-db-drivers">>

Rank(s) == CHOOSE i \in DOMAIN Collation : Collation[i] = s

localeCompare(a, b) == Rank(a) - Rank(b)

\* a compare function that looks at several keys in turn: the difference at
\* the first key that differs, 0 when none does
compareKeys(a, b) ==
  LET differ == {k \in DOMAIN a : a[k] # b[k]}
  IN IF differ = {} THEN 0
     ELSE LET first == CHOOSE k \in differ : \A m \in differ : k <= m
          IN a[first] - b[first]

\* [...seq].sort(compareFn), keys[i] being the keys compareFn reads from
\* seq[i]; the sort is stable: an element goes after those that compare lower
\* and after the equal ones that precede it
sort(seq, keys) ==
  LET n == Len(seq)
      before(j, i) == \/ compareKeys(keys[j], keys[i]) < 0
                      \/ (compareKeys(keys[j], keys[i]) = 0 /\ j < i)
      placed == {<<Cardinality({j \in 1..n : before(j, i)}) + 1, i>> : i \in 1..n}
  IN [k \in 1..n |-> seq[(CHOOSE pl \in placed : pl[1] = k)[2]]]

-----------------------------------------------------------------------------
(* vibe/snapshot.ts and blueprint/builders.ts: buildReportData *)

getSnapshot ==
  [nodes |-> nodes, edges |-> edges, nodeVibes |-> nodeVibes,
   edgeVibes |-> edgeVibes, globalVibe |-> globalVibe]

\* evidenceIndex is optional
NoIndex == [defined |-> FALSE, entries |-> <<>>]

\* evidenceIndex[ruleId]: <<pack>> when present, <<>> when not
indexGet(entries, ruleId) == SelectSeq(entries, LAMBDA p : p.ruleId = ruleId)

reportTier(g) ==
  IF g >= 80 THEN "GIGA" ELSE IF g >= 60 THEN "SOLID" ELSE IF g >= 40 THEN "SUS" ELSE "REKT"

\* collision findings that report every edge that is not NATIVE
collisionFindings_notNative(snapshot) ==
  LET collisionEdges ==
        SelectSeq(snapshot.edges,
                  LAMBDA e : /\ e.id \in DOMAIN snapshot.edgeVibes
                             /\ snapshot.edgeVibes[e.id].status # "NATIVE")
      kept == SelectSeq(collisionEdges,
                        LAMBDA e : {e.source, e.target} \subseteq DOMAIN snapshot.nodes)
  IN [i \in DOMAIN kept |->
        [type |-> "collision", severity |-> "high",
         what |-> <<kept[i].source, kept[i].target>>, ruleId |-> "", pack |-> <<>>]]

collisionFindings(snapshot) ==
  LET collisionEdges ==
        SelectSeq(snapshot.edges,
                  LAMBDA e : /\ e.id \in DOMAIN snapshot.edgeVibes
                             /\ snapshot.edgeVibes[e.id].status = "COLLISION")
      kept == SelectSeq(collisionEdges,
                        LAMBDA e : {e.source, e.target} \subseteq DOMAIN snapshot.nodes)
  IN [i \in DOMAIN kept |->
        [type |-> "collision", severity |-> "high",
         what |-> <<kept[i].source, kept[i].target>>, ruleId |-> "", pack |-> <<>>]]

\* new Set(snapshot.nodes.map(n => n.data.toolId).filter(Boolean))
toolIdsOf(snapshot) == {snapshot.nodes[n] : n \in DOMAIN snapshot.nodes} \ {NoTool}

riskMatched(ruleId, toolIds) ==
  \/ ruleId = "prisma-orm-edge-incompatibility" /\ "nextjs" \in toolIds /\ "prisma" \in toolIds
  \/ ruleId = "authjs-database-adapter-edge-failure" /\ "authjs" \in toolIds /\ "nextjs" \in toolIds
  \/ ruleId = "drizzle-orm-nodejs-dependencies" /\ "drizzle" \in toolIds /\ "nextjs" \in toolIds
  \/ /\ ruleId = "native-db-drivers-tcp-failure"
     /\ \/ ("nextjs" \in toolIds /\ ("postgres" \in toolIds \/ "mysql" \in toolIds))
        \/ ("nextjs" \in toolIds /\ "prisma" \in toolIds)
  \/ ruleId = "edge-runtime-response-timeout" /\ "nextjs" \in toolIds
  \/ ruleId = "next-edge-node-apis" /\ "nextjs" \in toolIds
  \/ ruleId = "vercel-serverless-connection-limits" /\ ("nextjs" \in toolIds \/ "vercel" \in toolIds)

\* the risk packs that fire, in index order
firedRisks(entries, toolIds) ==
  SelectSeq(entries, LAMBDA p : p.kind = "risk" /\ riskMatched(p.ruleId, toolIds))

riskFindings(entries, toolIds) ==
  LET fired == firedRisks(entries, toolIds)
  IN [i \in DOMAIN fired |->
        [type |-> "risk", severity |-> fired[i].severity, what |-> <<>>,
         ruleId |-> fired[i].ruleId, pack |-> <<fired[i]>>]]

firedRiskRuleIds(entries, toolIds) ==
  LET fired == firedRisks(entries, toolIds) IN {fired[i].ruleId : i \in DOMAIN fired}

\* a fix counts as referenced only when a fired risk lists it first
isReferenced_firstOnly(entries, fired, ruleId) ==
  \E riskRuleId \in fired :
     LET riskPack == indexGet(entries, riskRuleId)
     IN /\ riskPack # <<>>
        /\ riskPack[1].fixRuleIds # <<>>
        /\ riskPack[1].fixRuleIds[1] = ruleId

isReferenced(entries, fired, ruleId) ==
  \E riskRuleId \in fired :
     LET riskPack == indexGet(entries, riskRuleId)
     IN /\ riskPack # <<>>
        /\ \E k \in DOMAIN riskPack[1].fixRuleIds : riskPack[1].fixRuleIds[k] = ruleId

\* fix findings without the gate: every fix pack of the index is reported
fixFindings_ungated(entries, fired) ==
  LET shown == SelectSeq(entries, LAMBDA p : p.kind = "fix")
  IN [i \in DOMAIN shown |->
        [type |-> "fix", severity |-> "info", what |-> <<>>,
         ruleId |-> shown[i].ruleId, pack |-> <<shown[i]>>]]

fixFindings(entries, fired) ==
  LET shown == SelectSeq(entries, LAMBDA p : p.kind = "fix" /\ isReferenced(entries, fired, p.ruleId))
  IN [i \in DOMAIN shown |->
        [type |-> "fix", severity |-> "info", what |-> <<>>,
         ruleId |-> shown[i].ruleId, pack |-> <<shown[i]>>]]

positiveMatched(ruleId, toolIds) ==
  \/ ruleId = "turso-libsql-edge-native" /\ "turso" \in toolIds
  \/ ruleId = "neon-serverless-edge-driver" /\ "neon" \in toolIds

positiveFindings(entries, toolIds) ==
  LET shown == SelectSeq(entries, LAMBDA p : p.kind = "positive" /\ positiveMatched(p.ruleId, toolIds))
  IN [i \in DOMAIN shown |->
        [type |-> "positive", severity |-> "info", what |-> <<>>,
         ruleId |-> shown[i].ruleId, pack |-> <<shown[i]>>]]

\* low-score findings for REKT nodes only
lowScoreFindings_rektOnly(snapshot) ==
  LET low == SelectSeq(SetToSeq(DOMAIN snapshot.nodeVibes),
                       LAMBDA id : snapshot.nodeVibes[id].status = "REKT")
      nodeScores == sort(low, [i \in DOMAIN low |-> <<snapshot.nodeVibes[low[i]].score>>])
      kept == SelectSeq(nodeScores, LAMBDA id : id \in DOMAIN snapshot.nodes)
  IN [i \in DOMAIN kept |->
        [type |-> "low-score",
         severity |-> IF snapshot.nodeVibes[kept[i]].status = "REKT" THEN "high" ELSE "medium",
         what |-> <<kept[i]>>, ruleId |-> "", pack |-> <<>>]]

\* Object.entries(snapshot.nodeVibes) is taken in the key order of SetToSeq
lowScoreFindings(snapshot) ==
  LET low == SelectSeq(SetToSeq(DOMAIN snapshot.nodeVibes),
                       LAMBDA id : snapshot.nodeVibes[id].status \in {"REKT", "SUS"})
      nodeScores == sort(low, [i \in DOMAIN low |-> <<snapshot.nodeVibes[low[i]].score>>])
      kept == SelectSeq(nodeScores, LAMBDA id : id \in DOMAIN snapshot.nodes)
  IN [i \in DOMAIN kept |->
        [type |-> "low-score",
         severity |-> IF snapshot.nodeVibes[kept[i]].status = "REKT" THEN "high" ELSE "medium",
         what |-> <<kept[i]>>, ruleId |-> "", pack |-> <<>>]]

\* findings left in the order they were pushed
sortByRuleId_unsorted(fs) == fs

sortByRuleId(fs) == sort(fs, [i \in DOMAIN fs |-> <<Rank(fs[i].ruleId)>>])

buildReportData(snapshot, index) ==
  LET toolIds == toolIdsOf(snapshot)
      fired == firedRiskRuleIds(index.entries, toolIds)
      collisions == collisionFindings(snapshot)
      risks == IF index.defined THEN riskFindings(index.entries, toolIds) ELSE <<>>
      fixes == IF index.defined THEN fixFindings(index.entries, fired) ELSE <<>>
      positives == IF index.defined THEN positiveFindings(index.entries, toolIds) ELSE <<>>
      lowScores == lowScoreFindings(snapshot)
  IN [tier |-> reportTier(snapshot.globalVibe),
      findings |-> collisions \o sortByRuleId(risks) \o sortByRuleId(fixes)
                     \o sortByRuleId(positives) \o lowScores]

-----------------------------------------------------------------------------
(* JavaScript values: a record tagged with its kind *)

Str(s) == [t |-> "string", s |-> s]
Num(n) == [t |-> "number", n |-> n]
NaN == [t |-> "number", nan |-> TRUE]
Undefined == [t |-> "undefined"]
Null == [t |-> "null"]
Arr(items) == [t |-> "array", items |-> items]

\* typeof v
typeOf(v) == IF v.t \in {"null", "array"} THEN "object" ELSE v.t

\* !!v
truthy(v) ==
  CASE v.t \in {"undefined", "null"} -> FALSE
    [] v.t = "string" -> v.s # ""
    [] v.t = "number" -> "nan" \notin DOMAIN v /\ v.n # 0
    [] OTHER -> TRUE

\* o.name on a value that is neither null nor undefined
prop(o, name) == IF name \in DOMAIN o THEN o[name] ELSE Undefined

\* JSON.stringify followed by JSON.parse, as a value: NaN and an undefined
\* array item become null, an undefined property stays absent
RECURSIVE toJSON(_)
toJSON(v) ==
  CASE v.t = "array" ->
         Arr([i \in DOMAIN v.items |->
                IF v.items[i].t = "undefined" THEN Null ELSE toJSON(v.items[i])])
    [] v.t = "object" -> [f \in DOMAIN v |-> IF f = "t" THEN "object" ELSE toJSON(v[f])]
    [] v.t = "number" /\ "nan" \in DOMAIN v -> Null
    [] OTHER -> v

\* a text: JSON text for a document, some other text, or none at all
JSONstringify(v) == [kind |-> "json", doc |-> toJSON(v)]
OtherText == [kind |-> "other"]
NoText == [kind |-> "none"]

-----------------------------------------------------------------------------
(* shareable/shareable.ts *)

MAX_NODES == 100
MAX_EDGES == 300
MAX_ENCODED_LENGTH == 5000

\* a result slot before the function has been called
NoResult == [called |-> FALSE]

failure(error) == [called |-> TRUE, success |-> FALSE, error |-> error]

\* the empty string: no characters, nothing to decompress
EmptyString == [len |-> 0, text |-> NoText]

\* LZString: the compressed string has the length LZString gives it and
\* decompresses to the text it was made from; a string LZString did not
\* produce decompresses to null, or to whatever text it happens to encode
compressToEncodedURIComponent(text) == [len |-> lzLength, text |-> text]
decompressFromEncodedURIComponent(encoded) == encoded.text

\* nodes left in the order given
canonicalizeNodes_asGiven(ns) == ns

canonicalizeNodes(ns) == sort(ns, [i \in DOMAIN ns |-> <<Rank(ns[i].id.s)>>])

canonicalizeEdges(es) ==
  sort(es, [i \in DOMAIN es |-> <<Rank(es[i].source.s), Rank(es[i].target.s), Rank(es[i].id.s)>>])

\* !v || typeof v !== 'string', without the test for the empty string
invalidString_typeOnly(v) == typeOf(v) # "string"

\* !v || typeof v !== 'string'
invalidString(v) == ~truthy(v) \/ typeOf(v) # "string"

\* !v || typeof v !== 'object'
invalidObject(v) == ~truthy(v) \/ typeOf(v) # "object"

\* the check of one node: "" when it passes, "TypeError" when reading the
\* node throws
nodeError(node) ==
  IF node.t \in {"undefined", "null"} THEN "TypeError"
  ELSE IF invalidString(prop(node, "id")) THEN "Invalid node: missing or invalid id"
  ELSE IF invalidString(prop(node, "type")) THEN "Invalid node: missing or invalid type"
  ELSE IF invalidObject(prop(node, "position")) THEN "Invalid node: missing or invalid position"
  ELSE IF \/ typeOf(prop(prop(node, "position"), "x")) # "number"
          \/ typeOf(prop(prop(node, "position"), "y")) # "number"
         THEN "Invalid node: position must have numeric x and y"
  ELSE IF invalidObject(prop(node, "data")) THEN "Invalid node: missing or invalid data"
  ELSE ""

edgeError(edge) ==
  IF edge.t \in {"undefined", "null"} THEN "TypeError"
  ELSE IF invalidString(prop(edge, "id")) THEN "Invalid edge: missing or invalid id"
  ELSE IF invalidString(prop(edge, "source")) THEN "Invalid edge: missing or invalid source"
  ELSE IF invalidString(prop(edge, "target")) THEN "Invalid edge: missing or invalid target"
  ELSE ""

\* the error of the first item that has one
firstError(errors) ==
  LET bad == {i \in DOMAIN errors : errors[i] # ""}
  IN IF bad = {} THEN "" ELSE errors[CHOOSE i \in bad : \A j \in bad : i <= j]

\* the error message, "" for a valid payload
validatePayload(payload) ==
  IF ~truthy(payload) \/ typeOf(payload) # "object" THEN "Payload must be an object"
  ELSE IF prop(payload, "v") # Num(1) THEN "Invalid or missing version field (expected v=1)"
  ELSE IF invalidObject(prop(payload, "graph")) THEN "Missing or invalid graph field"
  ELSE LET ns == prop(prop(payload, "graph"), "nodes")
           es == prop(prop(payload, "graph"), "edges")
       IN IF ns.t # "array" THEN "Nodes must be an array"
          ELSE IF es.t # "array" THEN "Edges must be an array"
          ELSE IF Len(ns.items) > MAX_NODES THEN "Too many nodes"
          ELSE IF Len(es.items) > MAX_EDGES THEN "Too many edges"
          ELSE IF firstError([i \in DOMAIN ns.items |-> nodeError(ns.items[i])]) # ""
                 THEN firstError([i \in DOMAIN ns.items |-> nodeError(ns.items[i])])
          ELSE firstError([i \in DOMAIN es.items |-> edgeError(es.items[i])])

\* the edge limit switched off
tooManyEdges_off(es) == FALSE

tooManyEdges(es) == Len(es) > MAX_EDGES

serializeGraph(ns, es) ==
  IF Len(ns) > MAX_NODES THEN failure("Too many nodes")
  ELSE IF tooManyEdges(es) THEN failure("Too many edges")
  ELSE LET payload == [t |-> "object", v |-> Num(1),
                       graph |-> [t |-> "object", nodes |-> Arr(canonicalizeNodes(ns)),
                                  edges |-> Arr(canonicalizeEdges(es))]]
           encoded == compressToEncodedURIComponent(JSONstringify(payload))
       IN IF encoded.len > MAX_ENCODED_LENGTH THEN failure("Encoded payload too large")
          ELSE [called |-> TRUE, success |-> TRUE, encoded |-> encoded,
                stats |-> [nodeCount |-> Len(ns), edgeCount |-> Len(es),
                           encodedLength |-> encoded.len]]

deserializeGraph(encoded) ==
  IF encoded.len = 0 THEN failure("Encoded string is required")
  ELSE IF encoded.len > MAX_ENCODED_LENGTH THEN failure("Encoded string too long")
  ELSE LET jsonString == decompressFromEncodedURIComponent(encoded)
       IN IF jsonString.kind = "none"
            THEN failure("Failed to decompress data (corrupted or invalid encoding)")
          ELSE IF jsonString.kind # "json" THEN failure("Invalid JSON")
          ELSE LET validationError == validatePayload(jsonString.doc)
               IN IF validationError = "TypeError" THEN failure("Deserialization failed")
                  ELSE IF validationError # "" THEN failure(validationError)
                  ELSE [called |-> TRUE, success |-> TRUE, payload |-> jsonString.doc]

-----------------------------------------------------------------------------
(* inputs *)

\* FlowNode[] lists handed to init (the seed graph, a saved or an imported
\* graph): no node or three nodes, each either without a tool or with the
\* tool of its slot, as in seedNodes
SeedTool == [n \in NodeIds |-> IF n = "n2" THEN "t2" ELSE "t1"]

SeedNodeLists ==
  UNION {{ns \in [S -> ToolIds \cup {NoTool}] : \A n \in S : ns[n] \in {NoTool, SeedTool[n]}} :
           S \in {{}, NodeIds}}

\* FlowEdge[] lists handed to init: no edge, or one edge between the first
\* two nodes of the same graph
SeedEdgeLists(ns) ==
  IF {"n1", "n2"} \subseteq DOMAIN ns
    THEN {<<>>, <<[id |-> "e1", source |-> "n1", target |-> "n2"]>>}
    ELSE {<<>>}

\* no report has been built, nothing has been shared
NoReport == [built |-> FALSE, tier |-> "", findings |-> <<>>]

ReportIdle == evidenceIndex = NoIndex /\ report = NoReport /\ clock = 0

ShareIdle ==
  /\ shareNodes = <<>>
  /\ shareEdges = <<>>
  /\ lzLength = 1
  /\ serialized = NoResult
  /\ encodedInput = EmptyString
  /\ deserialized = NoResult

ToolsIdle ==
  /\ bfsSeeds = <<>>
  /\ traversal = NoResult
  /\ selectedEdge = <<>>
  /\ suggestions = NoResult
  /\ snapshotNodes = <<>>
  /\ manifests = <<>>
  /\ urlInput = <<>>
  /\ urlResults = <<>>
  /\ packFile = <<>>
  /\ loadedPack = NoResult

Init ==
  /\ registry \in Registries
  /\ nodes = <<>>
  /\ edges = <<>>
  /\ nodeVibes = <<>>
  /\ edgeVibes = <<>>
  /\ lastEvent = [type |-> "INIT"]
  /\ usage = "new"
  /\ calls = 0
  /\ ReportIdle
  /\ ShareIdle
  /\ ToolsIdle

\* every call counts towards MaxCalls
Counted == calls < MaxCalls /\ calls' = calls + 1

DoInit ==
  /\ Counted
  /\ UNCHANGED <<reportVars, shareVars, toolVars>>
  /\ \E ns \in SeedNodeLists : \E es \in SeedEdgeLists(ns) : init(ns, es)

DoUpdateTool ==
  /\ Counted
  /\ UNCHANGED <<reportVars, shareVars, toolVars>>
  /\ \E n \in NodeIds : \E t \in ToolIds \cup {UnknownTool} : updateTool(n, t)

\* onConnect: the edge id is crypto.randomUUID(), an id not in use; ids are
\* opaque, so the model takes one fixed unused id
UnusedEdgeIds == EdgeIds \ {edges[i].id : i \in DOMAIN edges}

DoConnectEdge ==
  /\ Counted
  /\ UNCHANGED <<reportVars, shareVars, toolVars>>
  /\ UnusedEdgeIds # {}
  /\ \E s \in NodeIds, t \in NodeIds :
       connectEdge([id |-> CHOOSE k \in UnusedEdgeIds : TRUE, source |-> s, target |-> t])

DoRemoveEdge ==
  /\ Counted
  /\ UNCHANGED <<reportVars, shareVars, toolVars>>
  /\ \E id \in EdgeIds : removeEdge(id)

Next == DoInit \/ DoUpdateTool \/ DoConnectEdge \/ DoRemoveEdge

Spec == Init /\ [][Next]_vars

-----------------------------------------------------------------------------
(* The report builder on its own: a graph is loaded into a fresh engine and   *)
(* the report is built from its snapshot and an evidence index               *)
(* (routes/report/+page.svelte)                                              *)

ReportTools == {"nextjs", "prisma", "drizzle", "turso"}

ReportToolName == [nextjs |-> "Next.js", prisma |-> "Prisma", drizzle |-> "Drizzle", turso |-> "Turso"]

ReportToolCategory == [nextjs |-> "Frontend", prisma |-> "ORM", drizzle |-> "ORM", turso |-> "Database"]

\* registry.json restricted to ReportTools: next.js may declare friction with
\* prisma, prisma may declare turso a best match and drizzle next.js
ReportRegistries ==
  {[t \in ReportTools |->
      [id |-> t, name |-> ReportToolName[t], category |-> ReportToolCategory[t],
       vibe_score |-> IF t = "prisma" THEN 30 ELSE 95,
       best_with |-> IF t = "prisma" /\ declared THEN {"turso"}
                     ELSE IF t = "drizzle" /\ declared THEN {"nextjs"} ELSE {},
       friction_with |-> IF t = "nextjs" /\ declared THEN {"prisma"} ELSE {}]] :
     declared \in BOOLEAN}

LoadedNodeLists ==
  {ns \in [NodeIds -> ReportTools \cup {NoTool}] :
     /\ ns["n1"] \in {"nextjs", NoTool}
     /\ ns["n2"] \in {"prisma", "turso"}
     /\ ns["n3"] \in {"turso", NoTool}}

LoadedEdgeLists ==
  {<<>>,
   <<[id |-> "e1", source |-> "n1", target |-> "n2"]>>,
   <<[id |-> "e1", source |-> "n1", target |-> "n2"],
     [id |-> "e2", source |-> "n2", target |-> "n3"]>>}

\* evidence/packs/*.json: two risks, the fixes they reference and a positive
PackFiles ==
  {[ruleId |-> "prisma-orm-edge-incompatibility", kind |-> "risk", severity |-> "high",
    fixRuleIds |-> <<"prisma-accelerate-http", "use-edge-compatible-db-drivers">>],
   [ruleId |-> "next-edge-node-apis", kind |-> "risk", severity |-> "medium",
    fixRuleIds |-> <<"use-edge-compatible-db-drivers">>],
   [ruleId |-> "prisma-accelerate-http", kind |-> "fix", severity |-> "info", fixRuleIds |-> <<>>],
   [ruleId |-> "prisma-accelerate-http", kind |-> "fix", severity |-> "medium", fixRuleIds |-> <<>>],
   [ruleId |-> "use-edge-compatible-db-drivers", kind |-> "fix", severity |-> "info",
    fixRuleIds |-> <<>>],
   [ruleId |-> "turso-libsql-edge-native", kind |-> "positive", severity |-> "info",
    fixRuleIds |-> <<>>]}

\* a packs directory: rule ids are unique, every fix a risk references is
\* there with kind fix, positives have severity info
ValidPacks(S) ==
  /\ \A p \in S, q \in S : p.ruleId = q.ruleId => p = q
  /\ \A p \in S : p.kind = "risk" =>
       \A k \in DOMAIN p.fixRuleIds :
          \E q \in S : q.ruleId = p.fixRuleIds[k] /\ q.kind = "fix"
  /\ \A p \in S : p.kind = "positive" => p.severity = "info"

\* loadEvidenceIndex: the packs keyed by ruleId, in the order the files load
EvidenceIndexes ==
  {NoIndex} \cup
  UNION {{[defined |-> TRUE, entries |-> e] :
            e \in {f \in [1..Cardinality(S) -> S] : \A i, j \in DOMAIN f : f[i] = f[j] => i = j}} :
           S \in {T \in SUBSET PackFiles : ValidPacks(T)}}

-----------------------------------------------------------------------------
(* The share codec on its own: a graph is serialized into a share link        *)
(* (generateShareUrl) and the data parameter of a link is deserialized       *)
(* (routes/demo/+page.server.ts)                                             *)

FlowNode(id, type) ==
  [t |-> "object", id |-> Str(id), type |-> type,
   position |-> [t |-> "object", x |-> Num(40), y |-> Num(120)],
   data |-> [t |-> "object", toolId |-> Str("t1")]]

FlowEdge(id, source, target) ==
  [t |-> "object", id |-> Str(id), source |-> Str(source), target |-> Str(target)]

\* nodes of a graph: two of type stack and one whose type is the empty string
ShareNodePool == {FlowNode("n1", Str("stack")), FlowNode("n2", Str("stack")), FlowNode("n3", Str(""))}

\* edges that differ in source, in target only, and in id only
ShareEdgePool ==
  {FlowEdge("e3", "n1", "n2"), FlowEdge("e2", "n1", "n2"),
   FlowEdge("e4", "n1", "n3"), FlowEdge("e1", "n2", "n1")}

\* the lists without repetition over a pool, in every order
ListsOver(pool) ==
  UNION {{f \in [1..Cardinality(S) -> S] : \A i, j \in DOMAIN f : f[i] = f[j] => i = j} :
           S \in SUBSET pool}

\* a list of k nodes, as in Array.from({ length: k }, ...)
ManyNodes(k) == [i \in 1..k |-> FlowNode(IF i % 2 = 1 THEN "n1" ELSE "n2", Str("stack"))]

ManyEdges(k) == [i \in 1..k |-> FlowEdge(IF i % 2 = 1 THEN "e1" ELSE "e2", "n1", "n2")]

\* the graphs handed to serializeGraph: small graphs in every order, and
\* graphs at and just over each limit
SharedGraphs ==
  {<<ns, es>> : ns \in ListsOver(ShareNodePool), es \in ListsOver(ShareEdgePool)}
  \cup {<<ManyNodes(k), <<>>>> : k \in {MAX_NODES, MAX_NODES + 1}}
  \cup {<<ManyNodes(2), ManyEdges(k)>> : k \in {MAX_EDGES, MAX_EDGES + 1}}
  \cup {<<ManyNodes(MAX_NODES + 1), ManyEdges(MAX_EDGES + 1)>>}

\* lengths LZString may give a compressed graph: under, at and over the limit
LzLengths == {MAX_ENCODED_LENGTH - 1, MAX_ENCODED_LENGTH, MAX_ENCODED_LENGTH + 1}

GoodNode == FlowNode("n1", Str("stack"))

\* array items that are not a well-formed node
BadNodes ==
  {Null, Str("n1"),
   [GoodNode EXCEPT !.id = Str("")], [GoodNode EXCEPT !.id = Num(7)],
   [GoodNode EXCEPT !.id = Undefined],
   [GoodNode EXCEPT !.type = Str("")], [GoodNode EXCEPT !.type = Undefined],
   [GoodNode EXCEPT !.position = Undefined], [GoodNode EXCEPT !.position = Str("0,0")],
   [GoodNode EXCEPT !.position.x = Str("40")], [GoodNode EXCEPT !.position.y = Undefined],
   [GoodNode EXCEPT !.data = Undefined], [GoodNode EXCEPT !.data = Null],
   [GoodNode EXCEPT !.data = Str("t1")]}

GoodEdge == FlowEdge("e1", "n1", "n2")

BadEdges ==
  {Null,
   [GoodEdge EXCEPT !.id = Str("")], [GoodEdge EXCEPT !.id = Num(7)],
   [GoodEdge EXCEPT !.source = Undefined], [GoodEdge EXCEPT !.source = Str("")],
   [GoodEdge EXCEPT !.target = Undefined], [GoodEdge EXCEPT !.target = Num(7)]}

\* what a document may hold as graph.nodes and as graph.edges
NodesFields ==
  {Undefined, Str("n1"), Arr(<<>>), Arr(<<GoodNode>>),
   Arr(<<FlowNode("n2", Str("stack")), GoodNode>>),
   Arr(<<[GoodNode EXCEPT !.data = Arr(<<>>)]>>),
   Arr(ManyNodes(MAX_NODES)), Arr(ManyNodes(MAX_NODES + 1))}
  \cup {Arr(<<GoodNode, bad>>) : bad \in BadNodes}

EdgesFields ==
  {Undefined, Arr(<<>>), Arr(<<GoodEdge>>), Arr(ManyEdges(MAX_EDGES + 1))}
  \cup {Arr(<<GoodEdge, bad>>) : bad \in BadEdges}

\* JSON documents a data parameter may decode to
Documents ==
  {Null, Str("graph"), Num(1), Arr(<<>>)}
  \cup {[t |-> "object", v |-> v, graph |-> g] :
          v \in {Num(1), Num(2), Str("1"), Undefined},
          g \in {Undefined, Null, Str("graph")}
                  \cup {[t |-> "object", nodes |-> ns, edges |-> es] :
                          ns \in NodesFields, es \in EdgesFields}}

\* data parameters that no share link of this session produced
ForeignStrings ==
  {[len |-> MAX_ENCODED_LENGTH + 1, text |-> NoText],
   [len |-> MAX_ENCODED_LENGTH, text |-> NoText],
   [len |-> MAX_ENCODED_LENGTH, text |-> OtherText]}
  \cup {[len |-> MAX_ENCODED_LENGTH, text |-> [kind |-> "json", doc |-> d]] : d \in Documents}

EngineIdle ==
  /\ registry = <<>>
  /\ nodes = <<>>
  /\ edges = <<>>
  /\ nodeVibes = <<>>
  /\ edgeVibes = <<>>
  /\ lastEvent = [type |-> "INIT"]
  /\ usage = "new"
  /\ calls = 0

InitShare ==
  /\ EngineIdle
  /\ ReportIdle
  /\ ToolsIdle
  /\ serialized = NoResult
  /\ deserialized = NoResult
  /\ \/ /\ \E g \in SharedGraphs : shareNodes = g[1] /\ shareEdges = g[2]
        /\ lzLength \in LzLengths
        /\ encodedInput = EmptyString
     \/ /\ shareNodes = <<>> /\ shareEdges = <<>>
        /\ lzLength = MAX_ENCODED_LENGTH
        /\ encodedInput \in ForeignStrings

\* generateShareUrl: the encoded graph becomes the link's data parameter
DoSerializeGraph ==
  /\ ~serialized.called /\ ~deserialized.called
  /\ serialized' = serializeGraph(shareNodes, shareEdges)
  /\ encodedInput' = IF serialized'.success THEN serialized'.encoded ELSE encodedInput
  /\ UNCHANGED <<registry, nodes, edges, nodeVibes, edgeVibes, lastEvent, usage, calls,
                 reportVars, toolVars, shareNodes, shareEdges, lzLength, deserialized>>

DoDeserializeGraph ==
  /\ ~deserialized.called
  /\ deserialized' = deserializeGraph(encodedInput)
  /\ UNCHANGED <<registry, nodes, edges, nodeVibes, edgeVibes, lastEvent, usage, calls,
                 reportVars, toolVars, shareNodes, shareEdges, lzLength, serialized, encodedInput>>

NextShare == DoSerializeGraph \/ DoDeserializeGraph

SpecShare == InitShare /\ [][NextShare]_vars

-----------------------------------------------------------------------------
(* graph/graph-utils.ts, with the insertion order of Map and Set kept: a Set *)
(* is the sequence of its elements in insertion order, a Map the sequence    *)
(* of its [key, value] entries in insertion order                            *)

setHas(set, x) == \E i \in DOMAIN set : set[i] = x

setAdd(set, x) == IF setHas(set, x) THEN set ELSE Append(set, x)

mapHas(map, k) == \E i \in DOMAIN map : map[i].key = k

\* adj.set(k, new Set()) for a key the map does not have
mapSetEmpty(map, k) == Append(map, [key |-> k, value |-> <<>>])

\* adj.get(k)!.add(x)
mapAddTo(map, k, x) ==
  [i \in DOMAIN map |-> IF map[i].key = k
                          THEN [key |-> k, value |-> setAdd(map[i].value, x)]
                        ELSE map[i]]

\* the loop body without the line that adds the source to the target's set
adjacencyStep_directed(adj, e) ==
  LET a1 == IF mapHas(adj, e.source) THEN adj ELSE mapSetEmpty(adj, e.source)
      a2 == IF mapHas(a1, e.target) THEN a1 ELSE mapSetEmpty(a1, e.target)
  IN mapAddTo(a2, e.source, e.target)

\* the body of the for (const e of edges) loop
adjacencyStep(adj, e) ==
  LET a1 == IF mapHas(adj, e.source) THEN adj ELSE mapSetEmpty(adj, e.source)
      a2 == IF mapHas(a1, e.target) THEN a1 ELSE mapSetEmpty(a1, e.target)
      a3 == mapAddTo(a2, e.source, e.target)
  IN mapAddTo(a3, e.target, e.source)

RECURSIVE adjacencyFrom(_, _, _)
adjacencyFrom(adj, es, i) ==
  IF i > Len(es) THEN adj ELSE adjacencyFrom(adjacencyStep(adj, es[i]), es, i + 1)

\* buildAdjacency, as the Map it returns
buildAdjacencyMap(es) == adjacencyFrom(<<>>, es, 1)

\* adjacency.get(cur): <<the Set>> or <<>> for undefined
mapGet(map, k) ==
  LET hits == {i \in DOMAIN map : map[i].key = k}
  IN IF hits = {} THEN <<>> ELSE <<map[CHOOSE i \in hits : TRUE].value>>

\* the state of connectedComponent: seen, the queue q, and as history the
\* ids pushed and the ids shifted so far
\* for (const x of ids) if (!seen.has(x)) { seen.add(x); q.push(x); }
RECURSIVE pushUnseen(_, _, _)
pushUnseen(st, ids, i) ==
  IF i > Len(ids) THEN st
  ELSE IF setHas(st.seen, ids[i]) THEN pushUnseen(st, ids, i + 1)
  ELSE pushUnseen([st EXCEPT !.seen = Append(st.seen, ids[i]),
                             !.q = Append(st.q, ids[i]),
                             !.pushed = Append(st.pushed, ids[i])],
                  ids, i + 1)

\* the while (q.length) loop
RECURSIVE drainQueue(_, _)
drainQueue(adjacency, st) ==
  IF st.q = <<>> THEN st
  ELSE LET cur == Head(st.q)
           shifted == [st EXCEPT !.q = Tail(st.q), !.visited = Append(st.visited, cur)]
           nbs == mapGet(adjacency, cur)
       IN IF nbs = <<>> THEN drainQueue(adjacency, shifted)
          ELSE drainQueue(adjacency, pushUnseen(shifted, nbs[1], 1))

\* connectedComponent over the Map: the Set it returns and the history
connectedComponentRun(adjacency, seedIds) ==
  drainQueue(adjacency,
             pushUnseen([seen |-> <<>>, q |-> <<>>, pushed |-> <<>>, visited |-> <<>>],
                        seedIds, 1))

-----------------------------------------------------------------------------
(* The graph helpers on their own: connectedComponent over the adjacency of  *)
(* an edge list, from a list of seeds (auditRipple's use of them)            *)

MaxGraphEdges == 2
MaxSeeds == 2

GraphEdgeIds == <<"e1", "e2", "e3", "e4", "e5", "e6">>

\* FlowEdge[] lists over the node ids: any source and target, self-loops
\* and repeated pairs included
GraphEdgeLists ==
  UNION {{[i \in 1..k |-> [id |-> GraphEdgeIds[i], source |-> st[i][1], target |-> st[i][2]]] :
            st \in [1..k -> NodeIds \X NodeIds]} : k \in 0..MaxGraphEdges}

\* seed lists: ids of the graph and an id that no edge names, repeats included
SeedLists == UNION {[1..k -> NodeIds \cup {"n4"}] : k \in 0..MaxSeeds}

InitGraph ==
  /\ registry = <<>>
  /\ nodes = <<>>
  /\ edges \in GraphEdgeLists
  /\ nodeVibes = <<>>
  /\ edgeVibes = <<>>
  /\ lastEvent = [type |-> "INIT"]
  /\ usage = "new"
  /\ calls = 0
  /\ ReportIdle
  /\ ShareIdle
  /\ bfsSeeds \in SeedLists
  /\ traversal = NoResult
  /\ selectedEdge = <<>>
  /\ suggestions = NoResult
  /\ snapshotNodes = <<>>
  /\ manifests = <<>>
  /\ urlInput = <<>>
  /\ urlResults = <<>>
  /\ packFile = <<>>
  /\ loadedPack = NoResult

DoConnectedComponent ==
  /\ ~traversal.called
  /\ traversal' = [called |-> TRUE] @@ connectedComponentRun(buildAdjacencyMap(edges), bfsSeeds)
  /\ UNCHANGED <<registry, nodes, edges, nodeVibes, edgeVibes, lastEvent, usage, calls,
                 reportVars, shareVars, bfsSeeds, selectedEdge, suggestions, snapshotNodes,
                 manifests, urlInput, urlResults, packFile, loadedPack>>

NextGraph == DoConnectedComponent

SpecGraph == InitGraph /\ [][NextGraph]_vars

-----------------------------------------------------------------------------
(* vibe/suggest.ts *)

\* the order of the libraries in registry.json
RegistryOrder ==
  <<"nextjs", "prisma", "drizzle", "kysely", "typeorm", "sequelize", "turso", "postgres",
    "t1", "t2">>

\* this.registry, the Library[] that byId is built from
libraries ==
  LET ids == SelectSeq(RegistryOrder, LAMBDA t : t \in DOMAIN registry)
  IN [i \in DOMAIN ids |-> registry[ids[i]]]

\* lib.friction_with?.includes(x) on byId.get(t), false when t has no library
frictionOf(t, x) == t \in DOMAIN registry /\ x \in registry[t].friction_with

\* wouldResolve that looks at the candidate's own friction list only
wouldResolve_ownListOnly(lib, otherToolId) == otherToolId \notin lib.friction_with

wouldResolve(lib, otherToolId) ==
  otherToolId \notin lib.friction_with /\ ~frictionOf(otherToolId, lib.id)

\* one of the two for (const lib of ctx.registry) loops: the alternatives
\* for the node nodeId of category category that holds ownToolId, the other
\* endpoint holding otherToolId
alternativesFor(nodeId, category, ownToolId, otherToolId) ==
  LET fit == SelectSeq(libraries,
                       LAMBDA lib : /\ lib.category = category
                                    /\ lib.id # ownToolId
                                    /\ otherToolId \in lib.best_with
                                    /\ wouldResolve(lib, otherToolId))
  IN [i \in DOMAIN fit |->
        [toolId |-> fit[i].id, toolName |-> fit[i].name, affectsNodeId |-> nodeId,
         category |-> fit[i].category]]

\* aIsNative of the sort's compare function
isNativeSuggestion(ctx, s) ==
  \/ (s.affectsNodeId = ctx.sourceNodeId /\ ctx.targetToolId \in registry[s.toolId].best_with)
  \/ (s.affectsNodeId = ctx.targetNodeId /\ ctx.sourceToolId \in registry[s.toolId].best_with)

\* the keys of the compare function: native first, vibe_score descending,
\* then toolName
suggestionKeys(ctx, s) ==
  <<IF isNativeSuggestion(ctx, s) THEN 0 ELSE 1, 0 - registry[s.toolId].vibe_score,
    Rank(s.toolName)>>

slice0to6(seq) == SubSeq(seq, 1, Min(6, Len(seq)))

generateCollisionSuggestions(ctx) ==
  LET found == alternativesFor(ctx.sourceNodeId, ctx.sourceCategory,
                               ctx.sourceToolId, ctx.targetToolId)
               \o alternativesFor(ctx.targetNodeId, ctx.targetCategory,
                                  ctx.targetToolId, ctx.sourceToolId)
  IN slice0to6(sort(found, [i \in DOMAIN found |-> suggestionKeys(ctx, found[i])]))

-----------------------------------------------------------------------------
(* The swap suggestions on their own: an ORM node and a database node are    *)
(* joined by an edge, suggestions are generated for the edge when it is a    *)
(* collision (buildReportData's swaps), and one of them is applied           *)
(* (EdgeInspector's handleApplySuggestion)                                   *)

LibraryOf(id, name, category, score, best, friction) ==
  [id |-> id, name |-> name, category |-> category, vibe_score |-> score,
   best_with |-> best, friction_with |-> friction]

Only(flag, t) == IF flag THEN {t} ELSE {}

\* registry.json restricted to five ORMs and two databases.  prisma and turso
\* may declare friction with each other; drizzle may be filed under either
\* category and may declare turso a best match or a friction, and turso may
\* declare friction with drizzle; the other ORMs may declare turso a best
\* match; postgres may declare prisma a best match or a friction.
SuggestRegistries ==
  {[t \in {"prisma", "drizzle", "kysely", "typeorm", "sequelize", "turso", "postgres"} |->
      CASE t = "prisma" -> LibraryOf(t, "Prisma", "ORM", 30, {}, Only(pf, "turso"))
        [] t = "drizzle" -> LibraryOf(t, "Drizzle", dc, 95, Only(db, "turso"), Only(df, "turso"))
        [] t = "kysely" -> LibraryOf(t, "Kysely", "ORM", 95, Only(kb, "turso"), {})
        [] t = "typeorm" -> LibraryOf(t, "TypeORM", "ORM", 30, Only(ob, "turso"), {})
        [] t = "sequelize" -> LibraryOf(t, "Sequelize", "ORM", 30, Only(sb, "turso"), {})
        [] t = "turso" -> LibraryOf(t, "Turso", "Database", 95, {},
                                    Only(tf, "prisma") \cup Only(td, "drizzle"))
        [] t = "postgres" -> LibraryOf(t, "Postgres", "Database", 95,
                                       Only(gb, "prisma"), Only(gf, "prisma"))] :
     pf \in BOOLEAN, tf \in BOOLEAN, dc \in {"ORM", "Database"}, db \in BOOLEAN,
     df \in BOOLEAN, td \in BOOLEAN, kb \in BOOLEAN, ob \in BOOLEAN, sb \in BOOLEAN,
     gb \in BOOLEAN, gf \in BOOLEAN}

\* the edge between the two nodes, in either direction
SuggestEdgeLists ==
  {<<[id |-> "e1", source |-> "n1", target |-> "n2"]>>,
   <<[id |-> "e1", source |-> "n2", target |-> "n1"]>>}

\* data.category of the two nodes; the ORM node may have none
NodeCategories == {[n1 |-> c, n2 |-> "Database"] : c \in {"ORM", ""}}

InitSuggest ==
  /\ registry \in SuggestRegistries
  /\ nodes = [n1 |-> "prisma", n2 |-> "turso"]
  /\ edges \in SuggestEdgeLists
  /\ nodeVibes = auditAll(nodes, edges, <<>>, <<>>).nodeVibes
  /\ edgeVibes = auditAll(nodes, edges, <<>>, <<>>).edgeVibes
  /\ lastEvent = [type |-> "INIT"]
  /\ usage = "clean"
  /\ calls = 1
  /\ ReportIdle
  /\ ShareIdle
  /\ bfsSeeds = <<>>
  /\ traversal = NoResult
  /\ \E c \in NodeCategories : selectedEdge = [id |-> "e1", category |-> c]
  /\ suggestions = NoResult
  /\ snapshotNodes = <<>>
  /\ manifests = <<>>
  /\ urlInput = <<>>
  /\ urlResults = <<>>
  /\ packFile = <<>>
  /\ loadedPack = NoResult

\* the SuggestionContext buildReportData makes for the edge e
contextOf(e) ==
  [sourceNodeId |-> e.source, sourceToolId |-> nodes[e.source],
   sourceCategory |-> selectedEdge.category[e.source],
   targetNodeId |-> e.target, targetToolId |-> nodes[e.target],
   targetCategory |-> selectedEdge.category[e.target]]

\* the loop over collisionEdges that builds the swaps
DoSuggest ==
  /\ ~suggestions.called
  /\ \E i \in DOMAIN edges :
       /\ edges[i].id = selectedEdge.id
       /\ edges[i].id \in DOMAIN edgeVibes /\ edgeVibes[edges[i].id].status = "COLLISION"
       /\ {edges[i].source, edges[i].target} \subseteq DOMAIN nodes
       /\ nodes[edges[i].source] # NoTool /\ nodes[edges[i].target] # NoTool
       /\ suggestions' = [called |-> TRUE, ctx |-> contextOf(edges[i]),
                          list |-> generateCollisionSuggestions(contextOf(edges[i])),
                          applied |-> <<>>]
  /\ UNCHANGED <<registry, nodes, edges, nodeVibes, edgeVibes, lastEvent, usage, calls,
                 reportVars, shareVars, bfsSeeds, traversal, selectedEdge, snapshotNodes,
                 manifests, urlInput, urlResults, packFile, loadedPack>>

DoApplySuggestion ==
  /\ suggestions.called /\ suggestions.applied = <<>>
  /\ \E i \in DOMAIN suggestions.list :
       /\ updateTool(suggestions.list[i].affectsNodeId, suggestions.list[i].toolId)
       /\ suggestions' = [suggestions EXCEPT !.applied = <<suggestions.list[i]>>]
  /\ calls' = calls + 1
  /\ UNCHANGED <<reportVars, shareVars, bfsSeeds, traversal, selectedEdge, snapshotNodes,
                 manifests, urlInput, urlResults, packFile, loadedPack>>

NextSuggest == DoSuggest \/ DoApplySuggestion

SpecSuggest == InitSuggest /\ [][NextSuggest]_vars

-----------------------------------------------------------------------------
(* blueprint/builders.ts: buildManifest.  A snapshot node is kept as         *)
(* [id, category, toolId], data.category and data.toolId being NoCategory    *)
(* and NoTool when absent.  An instant is a number: a timestamp argument is  *)
(* Num(n) or Undefined, and new Date().toISOString() is Num(clock).          *)

NoCategory == "no category"

categoryOrder == <<"Frontend", "Backend", "Auth", "ORM", "Database">>

\* Array.prototype.indexOf
indexOf(seq, x) ==
  LET hits == {i \in DOMAIN seq : seq[i] = x}
  IN IF hits = {} THEN 0 - 1 ELSE (CHOOSE i \in hits : \A j \in hits : i <= j) - 1

\* a timestamp default that reads the clock whatever it is given
timestampOrNow_clockOnly(timestamp) == Num(clock)

\* timestamp ?? new Date().toISOString()
timestampOrNow(timestamp) == IF timestamp = Undefined THEN Num(clock) ELSE timestamp

RECURSIVE dedupe(_, _, _)
dedupe(seq, i, acc) ==
  IF i > Len(seq) THEN acc ELSE dedupe(seq, i + 1, setAdd(acc, seq[i]))

\* the Set of the toolIds in use, in insertion order
usedToolIds(nodeList) ==
  LET withTool == SelectSeq(nodeList, LAMBDA n : n.toolId # NoTool)
  IN dedupe([i \in DOMAIN withTool |-> withTool[i].toolId], 1, <<>>)

\* the tools array: the libraries in use, by category order then name
manifestTools(nodeList) ==
  LET ids == SelectSeq(usedToolIds(nodeList), LAMBDA t : t \in DOMAIN registry)
      tools == [i \in DOMAIN ids |->
                  [id |-> registry[ids[i]].id, name |-> registry[ids[i]].name,
                   category |-> registry[ids[i]].category]]
  IN sort(tools, [i \in DOMAIN tools |->
                    <<indexOf(categoryOrder, tools[i].category), Rank(tools[i].name)>>])

\* the .map of the nodes array
manifestNode(n) ==
  [id |-> n.id,
   category |-> IF n.category = NoCategory THEN "" ELSE n.category,
   toolId |-> IF n.toolId = NoTool THEN "" ELSE n.toolId]

\* the compare function of the nodes array
compareManifestNodes(a, b) ==
  LET orderA == indexOf(categoryOrder, a.category)
      orderB == indexOf(categoryOrder, b.category)
  IN IF orderA # (0 - 1) /\ orderB # (0 - 1) /\ orderA # orderB THEN orderA - orderB
     ELSE localeCompare(a.id, b.id)

\* the orders of a list
arrangements(seq) ==
  {[i \in DOMAIN seq |-> seq[p[i]]] :
     p \in {q \in [DOMAIN seq -> DOMAIN seq] : \A i, j \in DOMAIN seq : q[i] = q[j] => i = j}}

\* the results of the compare function on the elements of ms, by position
comparisons(ms) ==
  [i \in DOMAIN ms, j \in DOMAIN ms |-> compareManifestNodes(ms[i], ms[j])]

\* ECMAScript's "consistent comparator" over the elements of ms
consistentOnNodes(ms) ==
  \E compared \in {comparisons(ms)} :
     LET D == DOMAIN ms
         lt(a, b) == compared[a, b] < 0
         eq(a, b) == compared[a, b] = 0
         gt(a, b) == compared[a, b] > 0
     IN /\ \A a \in D : eq(a, a)
        /\ \A a, b \in D : (lt(a, b) <=> gt(b, a)) /\ (eq(a, b) <=> eq(b, a))
        /\ \A a, b, c \in D : /\ (lt(a, b) /\ lt(b, c)) => lt(a, c)
                              /\ (eq(a, b) /\ eq(b, c)) => eq(a, c)
                              /\ (eq(a, b) /\ lt(b, c)) => lt(a, c)
                              /\ (lt(a, b) /\ eq(b, c)) => lt(a, c)

\* ms.sort(compareManifestNodes): with a consistent compare function the
\* stable ascending order; otherwise the order is implementation-defined
\* (ECMAScript, Array.prototype.sort), any order of the elements
sortedManifestNodes(ms) ==
  UNION {LET D == DOMAIN given
             orders == {q \in [D -> D] : \A i, j \in D : q[i] = q[j] => i = j}
             ascending ==
               {q \in orders : \A i, j \in D : i < j => compared[q[i], q[j]] <= 0}
         IN {[i \in D |-> given[q[i]]] :
               q \in IF consistentOnNodes(given) THEN ascending ELSE orders} :
           given \in {ms}, compared \in {comparisons(ms)}}

\* the edges array, by source, target and id
manifestEdges(snapshot) ==
  LET es == [i \in DOMAIN snapshot.edges |->
               LET e == snapshot.edges[i]
                   status == IF e.id \in DOMAIN snapshot.edgeVibes
                               THEN snapshot.edgeVibes[e.id].status ELSE "undefined"
               IN [id |-> e.id, source |-> e.source, target |-> e.target, status |-> status,
                   weight |-> IF status = "NATIVE" THEN 1
                              ELSE IF status = "COLLISION" THEN 0 - 1 ELSE 0]]
  IN sort(es, [i \in DOMAIN es |-> <<Rank(es[i].source), Rank(es[i].target), Rank(es[i].id)>>])

\* the manifests buildManifest can return for the snapshot whose nodes
\* array is nodeList
buildManifest(snapshot, nodeList, timestamp) ==
  LET generatedAt == timestampOrNow(timestamp)
      tools == manifestTools(nodeList)
      es == manifestEdges(snapshot)
  IN {[version |-> 1, generatedAt |-> generatedAt, tools |-> tools, nodes |-> sorted,
       edges |-> es, globalVibe |-> snapshot.globalVibe] :
        sorted \in sortedManifestNodes([i \in DOMAIN nodeList |-> manifestNode(nodeList[i])])}

-----------------------------------------------------------------------------
(* The manifest on its own: buildManifest is called on a snapshot, the same  *)
(* nodes are put in another order (a graph rebuilt, imported or shared in a   *)
(* different insertion order), and buildManifest is called again             *)

FIXED_TIMESTAMP == Num(0)

\* the tool each node holds
ManifestToolOf == [n1 |-> "prisma", n2 |-> "turso", n3 |-> NoTool]

\* nodes arrays: the three nodes in every order, each with a known category,
\* a category outside the five, or none
ManifestNodeLists ==
  UNION {arrangements(<<[id |-> "n1", category |-> c[1], toolId |-> ManifestToolOf["n1"]],
                        [id |-> "n2", category |-> c[2], toolId |-> ManifestToolOf["n2"]],
                        [id |-> "n3", category |-> c[3], toolId |-> ManifestToolOf["n3"]]>>) :
           c \in [1..3 -> {"Frontend", "Database", "Cache", NoCategory}]}

\* registries without declared relations
ManifestRegistries ==
  {r \in SuggestRegistries : \A t \in DOMAIN r : r[t].best_with = {} /\ r[t].friction_with = {}}

InitManifest ==
  /\ registry \in ManifestRegistries
  /\ snapshotNodes \in ManifestNodeLists
  /\ nodes = [n \in NodeIds |-> ManifestToolOf[n]]
  /\ edges \in LoadedEdgeLists
  /\ nodeVibes = auditAll(nodes, edges, <<>>, <<>>).nodeVibes
  /\ edgeVibes = auditAll(nodes, edges, <<>>, <<>>).edgeVibes
  /\ lastEvent = [type |-> "INIT"]
  /\ usage = "clean"
  /\ calls = 1
  /\ ReportIdle
  /\ ShareIdle
  /\ bfsSeeds = <<>>
  /\ traversal = NoResult
  /\ selectedEdge = <<>>
  /\ suggestions = NoResult
  /\ manifests = <<>>
  /\ urlInput = <<>>
  /\ urlResults = <<>>
  /\ packFile = <<>>
  /\ loadedPack = NoResult

\* manifests holds, for each call so far, the nodes array given and the
\* manifest returned
DoBuildManifest ==
  /\ Len(manifests) < 2
  /\ IF manifests = <<>> THEN TRUE ELSE manifests[Len(manifests)].given # snapshotNodes
  /\ \E m \in buildManifest(getSnapshot, snapshotNodes, FIXED_TIMESTAMP) :
       manifests' = Append(manifests, [given |-> snapshotNodes, manifest |-> m])
  /\ UNCHANGED <<registry, nodes, edges, nodeVibes, edgeVibes, lastEvent, usage, calls,
                 reportVars, shareVars, bfsSeeds, traversal, selectedEdge, suggestions,
                 snapshotNodes, urlInput, urlResults, packFile, loadedPack>>

DoReorderNodes ==
  /\ Len(manifests) = 1 /\ manifests[1].given = snapshotNodes
  /\ snapshotNodes' \in arrangements(snapshotNodes) \ {snapshotNodes}
  /\ UNCHANGED <<registry, nodes, edges, nodeVibes, edgeVibes, lastEvent, usage, calls,
                 reportVars, shareVars, bfsSeeds, traversal, selectedEdge, suggestions,
                 manifests, urlInput, urlResults, packFile, loadedPack>>

NextManifest == DoBuildManifest \/ DoReorderNodes

SpecManifest == InitManifest /\ [][NextManifest]_vars

-----------------------------------------------------------------------------
(* canonicalizeUrl (builder/default-slots.ts).  A URL string is kept as its  *)
(* parts in the order they are written: scheme ("" when the string has       *)
(* none), host, path (the segments that follow each "/", so "/a/" is         *)
(* <<"a", "">>, "/" is <<"">> and no path at all is <<>>), search and hash    *)
(* (each with its leading "?" or "#", "" when absent).                       *)

\* String.prototype.toLowerCase on the strings the model uses
toLowerCase(s) ==
  CASE s = "Example.COM" -> "example.com"
    [] s = "HTTP" -> "http"
    [] s = "HTTP://" -> "http://"
    [] s = "Path" -> "path"
    [] s = "?Q=1" -> "?q=1"
    [] s = "#Top" -> "#top"
    [] OTHER -> s

\* url.startsWith('http://') || url.startsWith('https://')
startsWithHttp(url) == url.scheme \in {"http://", "https://"}

\* 'https://' + url: a string without scheme gets one; a string that starts
\* with another scheme text S:// now reads https://S://..., whose host is S
\* (with an empty port) and whose path starts with "//"
prefixHttps(url) ==
  IF url.scheme = "" THEN [url EXCEPT !.scheme = "https://"]
  ELSE [url EXCEPT !.scheme = "https://",
                   !.host = "HTTP",
                   !.path = <<"", url.host>> \o url.path]

\* hosts the URL parser rejects: the empty host and a host with a space
validHost(host) == host \notin {"", "exa mple.com"}

\* if (pathname !== '/' && pathname.endsWith('/')) pathname = pathname.slice(0, -1)
stripTrailingSlash(pathname) ==
  IF pathname # <<"">> /\ pathname[Len(pathname)] = ""
    THEN SubSeq(pathname, 1, Len(pathname) - 1)
  ELSE pathname

\* the catch branch: url.toLowerCase().replace(/^http:/, 'https:')
lowercased(url) ==
  [scheme |-> IF toLowerCase(url.scheme) = "http://" THEN "https://" ELSE toLowerCase(url.scheme),
   host |-> toLowerCase(url.host),
   path |-> [i \in DOMAIN url.path |-> toLowerCase(url.path[i])],
   search |-> toLowerCase(url.search),
   hash |-> toLowerCase(url.hash)]

canonicalizeUrl(u) ==
  LET url == IF startsWithHttp(u) THEN u ELSE prefixHttps(u)
  IN IF validHost(url.host)
       THEN [scheme |-> "https://",
             host |-> toLowerCase(url.host),
             path |-> stripTrailingSlash(IF url.path = <<>> THEN <<"">> ELSE url.path),
             search |-> "",
             hash |-> ""]
     ELSE lowercased(url)

-----------------------------------------------------------------------------
(* canonicalizeUrl on its own: a URL is canonicalized, and the result is     *)
(* canonicalized again (the loader stores canonical URLs, the report         *)
(* renderer canonicalizes what it is given)                                  *)

UrlPaths ==
  {<<>>, <<"">>, <<"Path">>, <<"Path", "">>, <<"Path", "", "">>, <<"", "">>,
   <<"docs", "Path", "">>}

\* URL strings: with and without scheme, with an upper-case scheme, with
\* upper-case host and path, with query and fragment, with one and with
\* several trailing slashes, and strings the URL parser rejects
UrlStrings ==
  {u \in [scheme : {"", "http://", "https://", "HTTP://"},
          host : {"example.com", "Example.COM", "exa mple.com", ""},
          path : UrlPaths,
          search : {"", "?Q=1"},
          hash : {"", "#Top"}] :
     /\ u.host = "" => u.path = <<>> /\ u.search = "" /\ u.hash = ""
     /\ u.scheme = "HTTP://" => u.host \in {"example.com", "Example.COM"}}

InitUrl ==
  /\ EngineIdle
  /\ ReportIdle
  /\ ShareIdle
  /\ bfsSeeds = <<>>
  /\ traversal = NoResult
  /\ selectedEdge = <<>>
  /\ suggestions = NoResult
  /\ snapshotNodes = <<>>
  /\ manifests = <<>>
  /\ urlInput \in UrlStrings
  /\ urlResults = <<>>
  /\ packFile = <<>>
  /\ loadedPack = NoResult

\* urlResults holds the result of each call so far; a call takes the input
\* first and the last result afterwards
DoCanonicalizeUrl ==
  /\ Len(urlResults) < 2
  /\ urlResults' = Append(urlResults,
                          canonicalizeUrl(IF urlResults = <<>> THEN urlInput
                                          ELSE urlResults[Len(urlResults)]))
  /\ UNCHANGED <<registry, nodes, edges, nodeVibes, edgeVibes, lastEvent, usage, calls,
                 reportVars, shareVars, bfsSeeds, traversal, selectedEdge, suggestions,
                 snapshotNodes, manifests, urlInput, packFile, loadedPack>>

NextUrl == DoCanonicalizeUrl

SpecUrl == InitUrl /\ [][NextUrl]_vars

-----------------------------------------------------------------------------
(* The evidence loader (evidence/loader.ts).  An excerpt is kept as its      *)
(* number of words (0 for an empty or blank excerpt); a note as the sequence *)
(* of the parts that ' | ' joins, <<>> for an absent or empty note; an       *)
(* optional canonicalUrl as <<url>> or <<>>; needsVerification as "true",    *)
(* "false" or "undefined".                                                   *)

VALID_SOURCE_TYPES ==
  {"official_docs", "vendor_docs", "github_maintainer", "release_notes", "user_report",
   "community"}

excerptWordLimit == 25

\* text.trim().split(/\s+/).length: splitting the empty string gives [""]
countWords(excerpt) == IF excerpt.words = 0 THEN 1 ELSE excerpt.words

\* excerpt.trim().length > 0
nonBlank(excerpt) == excerpt.words > 0

\* note?.includes('INVALID')
includesINVALID(note) ==
  \E i \in DOMAIN note :
     note[i] \in {"INVALID: Excerpt exceeds 25 words", "INVALID_SOURCE_TYPE: blog",
                  "INVALID: withdrawn"}

\* `INVALID_SOURCE_TYPE: ${item.sourceType}`
invalidSourceTypeNote(sourceType) ==
  IF sourceType = "blog" THEN "INVALID_SOURCE_TYPE: blog" ELSE "INVALID_SOURCE_TYPE"

\* a callback that never checks the length of the excerpt
processEvidenceItem_noWordLimit(item) ==
  [item EXCEPT !.url = canonicalizeUrl(item.url),
               !.canonicalUrl = IF item.canonicalUrl # <<>> THEN item.canonicalUrl
                                ELSE <<canonicalizeUrl(item.url)>>,
               !.note = IF item.sourceType \notin VALID_SOURCE_TYPES
                          THEN Append(item.note, invalidSourceTypeNote(item.sourceType))
                        ELSE item.note]

\* the .map callback of processEvidenceItems
processEvidenceItem(item) ==
  LET note1 == IF countWords(item.excerpt) > excerptWordLimit
                 THEN Append(item.note, "INVALID: Excerpt exceeds 25 words")
               ELSE item.note
      note2 == IF item.sourceType \notin VALID_SOURCE_TYPES
                 THEN Append(note1, invalidSourceTypeNote(item.sourceType))
               ELSE note1
  IN [item EXCEPT !.url = canonicalizeUrl(item.url),
                  !.canonicalUrl = IF item.canonicalUrl # <<>> THEN item.canonicalUrl
                                   ELSE <<canonicalizeUrl(item.url)>>,
                  !.note = note2]

\* the keys localeCompare reads from a URL string: its parts in writing order
urlKeys(url) ==
  <<Rank(url.scheme), Rank(url.host)>>
  \o [i \in 1..3 |-> IF i <= Len(url.path) THEN Rank(url.path[i]) ELSE Rank("")]

processEvidenceItems(items) ==
  LET mapped == [i \in DOMAIN items |-> processEvidenceItem(items[i])]
  IN sort(mapped, [i \in DOMAIN mapped |-> urlKeys(mapped[i].canonicalUrl[1])])

\* a gate that takes any item with an excerpt for primary evidence
applyQualityGate_ignoresNotes(pack) ==
  LET hasPrimaryEvidence ==
        \E i \in DOMAIN pack.evidence : nonBlank(pack.evidence[i].excerpt)
  IN IF ~hasPrimaryEvidence
       THEN [pack EXCEPT !.confidence = "low", !.needsVerification = "true"]
     ELSE pack

applyQualityGate(pack) ==
  LET hasPrimaryEvidence ==
        \E i \in DOMAIN pack.evidence :
           nonBlank(pack.evidence[i].excerpt) /\ ~includesINVALID(pack.evidence[i].note)
      validEvidence == SelectSeq(pack.evidence, LAMBDA e : ~includesINVALID(e.note))
      hasNonCommunityEvidence ==
        \E i \in DOMAIN validEvidence : validEvidence[i].sourceType # "community"
  IN IF ~hasPrimaryEvidence
       THEN [pack EXCEPT !.confidence = "low", !.needsVerification = "true"]
     ELSE IF validEvidence # <<>> /\ ~hasNonCommunityEvidence /\ pack.confidence = "high"
       THEN [pack EXCEPT !.confidence = "medium"]
     ELSE pack

\* the body of loadEvidenceIndex's loop: the pack stored under its ruleId
loadPack(pack) ==
  applyQualityGate([pack EXCEPT !.evidence = processEvidenceItems(pack.evidence),
                                !.counterEvidence = processEvidenceItems(pack.counterEvidence)])

-----------------------------------------------------------------------------
(* The loader on its own: one pack file is loaded *)

MaxEvidence == 2

\* the url an item of each source type quotes
SourceUrl(sourceType) ==
  CASE sourceType = "official_docs" ->
         [scheme |-> "https://", host |-> "Example.COM", path |-> <<"docs", "Path", "">>,
          search |-> "", hash |-> "#Top"]
    [] sourceType = "community" ->
         [scheme |-> "", host |-> "example.com", path |-> <<"Path">>,
          search |-> "", hash |-> ""]
    [] OTHER ->
         [scheme |-> "http://", host |-> "example.com", path |-> <<"Path">>,
          search |-> "?Q=1", hash |-> ""]

\* evidence items: an empty excerpt, a short one, one at the limit and one
\* over it; a primary, a community and an unknown source type; no note or a
\* note that already says INVALID
EvidenceItems ==
  {[url |-> SourceUrl(st), canonicalUrl |-> <<>>, sourceType |-> st,
    excerpt |-> [words |-> w], note |-> n] :
     st \in {"official_docs", "community", "blog"},
     w \in {0, 3, excerptWordLimit, excerptWordLimit + 1},
     n \in {<<>>, <<"INVALID: withdrawn">>}}

EvidencePackFiles ==
  {[ruleId |-> "prisma-orm-edge-incompatibility", kind |-> "risk", severity |-> "high",
    confidence |-> c, needsVerification |-> nv, evidence |-> ev, counterEvidence |-> <<>>] :
     c \in {"high", "medium", "low"}, nv \in {"undefined", "false"},
     ev \in UNION {[1..k -> EvidenceItems] : k \in 0..MaxEvidence}}

InitLoader ==
  /\ EngineIdle
  /\ ReportIdle
  /\ ShareIdle
  /\ bfsSeeds = <<>>
  /\ traversal = NoResult
  /\ selectedEdge = <<>>
  /\ suggestions = NoResult
  /\ snapshotNodes = <<>>
  /\ manifests = <<>>
  /\ urlInput = <<>>
  /\ urlResults = <<>>
  /\ packFile \in EvidencePackFiles
  /\ loadedPack = NoResult

DoLoadPack ==
  /\ ~loadedPack.called
  /\ loadedPack' = [called |-> TRUE, pack |-> loadPack(packFile)]
  /\ UNCHANGED <<registry, nodes, edges, nodeVibes, edgeVibes, lastEvent, usage, calls,
                 reportVars, shareVars, bfsSeeds, traversal, selectedEdge, suggestions,
                 snapshotNodes, manifests, urlInput, urlResults, packFile>>

NextLoader == DoLoadPack

SpecLoader == InitLoader /\ [][NextLoader]_vars

-----------------------------------------------------------------------------
(* blueprint/builders.ts: the whole of buildReportData and                   *)
(* buildReportMarkdown.  buildReportData above gives the tier and the        *)
(* findings; here the timestamp, the swaps and the manifest join them.  The  *)
(* reason text of an alternative is not kept.  The Markdown is kept as its   *)
(* list of lines, each line as the values the template writes into it; the   *)
(* packs of the report model carry no evidence items, so the details blocks  *)
(* hold no item lines and there is no Sources footer.                        *)

\* the category of the slot a node of the loaded graph sits in
SlotCategory == [n1 |-> "Frontend", n2 |-> "ORM", n3 |-> "Database"]

\* snapshot.nodes as the array buildManifest and the swaps read: a node with
\* a tool carries the tool's category, an empty one the category of its slot
reportNodeList ==
  LET ids == SetToSeq(DOMAIN nodes)
  IN [i \in DOMAIN ids |->
        [id |-> ids[i], toolId |-> nodes[ids[i]],
         category |-> IF nodes[ids[i]] \in DOMAIN registry
                        THEN registry[nodes[ids[i]]].category ELSE SlotCategory[ids[i]]]]

\* snapshot.nodes.find(n => n.id === id): <<node>> or <<>>
findNode(nodeList, id) == SelectSeq(nodeList, LAMBDA n : n.id = id)

\* byId.get(toolId)?.name ?? toolId
toolNameOr(toolId) == IF toolId \in DOMAIN registry THEN registry[toolId].name ELSE toolId

\* the swaps: one entry for each collision edge whose two nodes hold a tool
reportSwaps(snapshot, nodeList) ==
  LET collisionEdges ==
        SelectSeq(snapshot.edges,
                  LAMBDA e : /\ e.id \in DOMAIN snapshot.edgeVibes
                             /\ snapshot.edgeVibes[e.id].status = "COLLISION")
      kept == SelectSeq(collisionEdges,
                        LAMBDA e : /\ findNode(nodeList, e.source) # <<>>
                                   /\ findNode(nodeList, e.target) # <<>>
                                   /\ findNode(nodeList, e.source)[1].toolId # NoTool
                                   /\ findNode(nodeList, e.target)[1].toolId # NoTool)
  IN [i \in DOMAIN kept |->
        LET sourceNode == findNode(nodeList, kept[i].source)[1]
            targetNode == findNode(nodeList, kept[i].target)[1]
            found == generateCollisionSuggestions(
                       [sourceNodeId |-> sourceNode.id, sourceToolId |-> sourceNode.toolId,
                        sourceCategory |-> IF sourceNode.category = NoCategory THEN ""
                                           ELSE sourceNode.category,
                        targetNodeId |-> targetNode.id, targetToolId |-> targetNode.toolId,
                        targetCategory |-> IF targetNode.category = NoCategory THEN ""
                                           ELSE targetNode.category])
        IN [edgeId |-> kept[i].id,
            sourceTool |-> toolNameOr(sourceNode.toolId),
            targetTool |-> toolNameOr(targetNode.toolId),
            alternatives |-> [k \in DOMAIN found |->
                                [toolId |-> found[k].toolId, toolName |-> found[k].toolName,
                                 affectsNodeId |-> found[k].affectsNodeId]]]]

\* the values buildReportData can return: one for each manifest buildManifest
\* can return
ReportData(snapshot, nodeList, timestamp, index) ==
  LET ts == timestampOrNow(timestamp)
      base == buildReportData(snapshot, index)
      swaps == reportSwaps(snapshot, nodeList)
  IN {[timestamp |-> ts, globalVibe |-> snapshot.globalVibe, tier |-> base.tier,
       findings |-> base.findings, swaps |-> swaps, manifest |-> manifest] :
        manifest \in buildManifest(snapshot, nodeList, ts)}

\* one line of the Markdown: the template it comes from and what is written
\* into it
Line(template, texts, number) == [template |-> template, texts |-> texts, number |-> number]

\* the lines of one findings section; fs are the positions of its findings
sectionLines(template, findings, fs) ==
  [i \in DOMAIN fs |->
     LET f == findings[fs[i]]
     IN Line(template,
             <<f.severity, f.ruleId>> \o f.what
               \o (IF f.pack # <<>> THEN <<"Evidence Details", f.pack[1].ruleId>> ELSE <<>>),
             i)]

\* the lines of the Recommended Swaps section
swapLines(swaps) ==
  IF swaps = <<>> THEN <<Line("No collisions detected. No swaps needed.", <<>>, 0)>>
  ELSE [i \in DOMAIN swaps |->
          Line("swap",
               <<swaps[i].sourceTool, swaps[i].targetTool>>
                 \o (IF swaps[i].alternatives = <<>>
                       THEN <<"No compatible alternatives found in registry.">>
                     ELSE [k \in DOMAIN swaps[i].alternatives |->
                             swaps[i].alternatives[k].toolName]),
               Len(swaps[i].alternatives))]

buildReportMarkdown(data) ==
  LET ofType(t) == SelectSeq([i \in DOMAIN data.findings |-> i],
                             LAMBDA i : data.findings[i].type = t)
      topFindings == ofType("collision") \o ofType("low-score")
  IN [generated |-> data.timestamp,
      lines |->
        <<Line("Global Vibe", <<data.tier>>, data.globalVibe)>>
        \o (IF topFindings = <<>> THEN <<Line("No major issues detected.", <<>>, 0)>>
            ELSE sectionLines("Top Findings", data.findings, topFindings))
        \o sectionLines("Risks", data.findings, ofType("risk"))
        \o sectionLines("Fixes", data.findings, ofType("fix"))
        \o sectionLines("Greenlights", data.findings, ofType("positive"))
        \o swapLines(data.swaps)
        \o [i \in DOMAIN data.manifest.tools |->
              Line("Stack Tools",
                   <<data.manifest.tools[i].name, data.manifest.tools[i].category>>, i)]]

-----------------------------------------------------------------------------
(* The report page: the graph is loaded, the report is built from the        *)
(* engine's snapshot with or without a timestamp, and time passes            *)

MaxClock == 1

InitReport ==
  /\ registry \in ReportRegistries
  /\ nodes \in LoadedNodeLists
  /\ edges \in LoadedEdgeLists
  /\ nodeVibes = auditAll(nodes, edges, <<>>, <<>>).nodeVibes
  /\ edgeVibes = auditAll(nodes, edges, <<>>, <<>>).edgeVibes
  /\ lastEvent = [type |-> "INIT"]
  /\ usage = "clean"
  /\ calls = 1
  /\ evidenceIndex \in EvidenceIndexes
  /\ report = NoReport
  /\ clock = 0
  /\ ShareIdle
  /\ ToolsIdle

BuildReport ==
  /\ ~report.built
  /\ \E timestamp \in {Undefined, FIXED_TIMESTAMP} :
       \E data \in ReportData(getSnapshot, reportNodeList, timestamp, evidenceIndex) :
          report' = [built |-> TRUE, given |-> timestamp,
                     markdown |-> buildReportMarkdown(data)] @@ data
  /\ UNCHANGED <<registry, nodes, edges, nodeVibes, edgeVibes, lastEvent, usage, calls,
                 evidenceIndex, clock, shareVars, toolVars>>

\* time passes after a report was built
ClockTick ==
  /\ report.built
  /\ clock < MaxClock
  /\ clock' = clock + 1
  /\ UNCHANGED <<registry, nodes, edges, nodeVibes, edgeVibes, lastEvent, usage, calls,
                 evidenceIndex, report, shareVars, toolVars>>

NextReport == BuildReport \/ ClockTick

SpecReport == InitReport /\ [][NextReport]_vars

-----------------------------------------------------------------------------
(* Vocabulary of the properties *)

\* the entry of a Record under key k: <<value>> when present, <<>> when not
Entry(f, k) == IF k \in DOMAIN f THEN <<f[k]>> ELSE <<>>

EdgeSet(es) == {es[i] : i \in DOMAIN es}

Joins(e, x, y) == (e.source = x /\ e.target = y) \/ (e.source = y /\ e.target = x)

\* node ids reachable from S along the edges es taken in either direction
RECURSIVE Reach(_, _)
Reach(es, S) ==
  LET step == S \cup {e.target : e \in {f \in EdgeSet(es) : f.source \in S}}
                \cup {e.source : e \in {f \in EdgeSet(es) : f.target \in S}}
  IN IF step = S THEN S ELSE Reach(es, step)

Resolved(id) == id \in DOMAIN nodes /\ nodes[id] \in DOMAIN registry

\* tool x lists tool y as friction / as affinity
Frictions(x, y) == y \in registry[x].friction_with
Affine(x, y) == y \in registry[x].best_with

-----------------------------------------------------------------------------
(* C1 *)

\* every recorded entry outside the component C is the same before and after
\* the step: node entries of ids outside C, edge entries of edges with no
\* endpoint in C
FrameOutside(C) ==
  /\ \A id \in NodeIds \ C : Entry(nodeVibes', id) = Entry(nodeVibes, id)
  /\ \A e \in EdgeSet(edges) \cup EdgeSet(edges') :
       (e.source \notin C /\ e.target \notin C)
         => Entry(edgeVibes', e.id) = Entry(edgeVibes, e.id)

\* the component, in the graph after the step, of what the step changed:
\* lastEvent names the call the step made
LocalityStep ==
  LET ev == lastEvent'
  IN CASE ev.type = "NODE_TOOL_CHANGED" ->
            FrameOutside(Reach(edges', {ev.nodeId}))
       [] ev.type = "EDGE_CONNECTED" ->
            FrameOutside(Reach(edges', {ev.source, ev.target}))
       [] ev.type = "EDGE_REMOVED" ->
            FrameOutside(Reach(edges',
               {e.source : e \in {f \in EdgeSet(edges) : f.id = ev.edgeId}}
                 \cup {e.target : e \in {f \in EdgeSet(edges) : f.id = ev.edgeId}}))
       [] OTHER -> TRUE

\* C1: an updateTool, connectEdge or removeEdge call leaves the nodeVibes
\* entry of every node outside the connected component (in the graph after
\* the call) of the changed node or of the changed edge's endpoints as it
\* was, and likewise the edgeVibes entry of every edge with no endpoint in
\* that component.
C1_Locality == [][LocalityStep]_vars

\* a tool change has just been made on a node while a scored node and a
\* scored edge lie outside its component
C1_Witness ==
  /\ lastEvent.type = "NODE_TOOL_CHANGED"
  /\ lastEvent.nodeId \in DOMAIN nodes
  /\ \E e \in EdgeSet(edges) :
       /\ {e.source, e.target} \cap Reach(edges, {lastEvent.nodeId}) = {}
       /\ e.source # e.target
       /\ e.id \in DOMAIN edgeVibes
       /\ e.source \in DOMAIN nodeVibes /\ nodeVibes[e.source].status # "BROKEN"

-----------------------------------------------------------------------------
(* C2 *)

-----------------------------------------------------------------------------
(* C3 *)

\* C3: whenever the graph has no nodes, globalVibe is 100.
C3_EmptyGraphIs100 == (DOMAIN nodes = {}) => (globalVibe = 100)

-----------------------------------------------------------------------------
(* C4 *)

\* r is num/den rounded to the nearest integer, halves up
IsRoundedMean(r, num, den) == 2 * r * den - den <= 2 * num /\ 2 * num < 2 * r * den + den

-----------------------------------------------------------------------------
(* C5 *)

ExpectedStatus(a, b) ==
  IF ~Resolved(a) \/ ~Resolved(b) THEN "NEUTRAL"
  ELSE IF Frictions(nodes[a], nodes[b]) \/ Frictions(nodes[b], nodes[a]) THEN "COLLISION"
  ELSE IF Affine(nodes[a], nodes[b]) \/ Affine(nodes[b], nodes[a]) THEN "NATIVE"
  ELSE "NEUTRAL"

-----------------------------------------------------------------------------
(* C6 *)

\* C6: the status scoreEdge computes for a pair of nodes is the status it
\* computes for the pair with source and target swapped.
C6_Symmetry ==
  \A a \in NodeIds : \A b \in NodeIds :
     scoreEdge(nodes, a, b).status = scoreEdge(nodes, b, a).status

\* an edge scored COLLISION on a friction that only its target's tool declares
C6_Witness ==
  \E e \in EdgeSet(edges) :
     /\ Resolved(e.source) /\ Resolved(e.target)
     /\ Frictions(nodes[e.target], nodes[e.source])
     /\ ~Frictions(nodes[e.source], nodes[e.target])
     /\ e.id \in DOMAIN edgeVibes /\ edgeVibes[e.id].status = "COLLISION"

-----------------------------------------------------------------------------
(* C7 *)

NeighboursOf(n) == {x \in NodeIds : \E e \in EdgeSet(edges) : Joins(e, n, x)}

\* the recorded status of an edge joining n and x
StatusBetween(n, x) ==
  edgeVibes[(CHOOSE e \in EdgeSet(edges) : Joins(e, n, x)).id].status

CountNeighbours(n, st) == Cardinality({x \in NeighboursOf(n) : StatusBetween(n, x) = st})

\* C7: the recorded score of a node with a resolved tool is the clamp to
\* 0..100 of its tool's base score plus bestBonus per neighbour over a
\* NATIVE edge, minus frictionPenalty per neighbour over a COLLISION edge,
\* minus unknownPenalty per neighbour over a NEUTRAL edge.
C7_NodeScoreFromEdgeStatuses ==
  \A n \in DOMAIN nodes :
     Resolved(n) =>
        /\ n \in DOMAIN nodeVibes
        /\ nodeVibes[n].score =
             Max(0, Min(100, registry[nodes[n]].vibe_score
                              + bestBonus * CountNeighbours(n, "NATIVE")
                              - frictionPenalty * CountNeighbours(n, "COLLISION")
                              - unknownPenalty * CountNeighbours(n, "NEUTRAL")))

-----------------------------------------------------------------------------
(* C8 *)

ExpectedTier(score) ==
  CASE score \in 80..100 -> "GIGA"
    [] score \in 60..79 -> "SOLID"
    [] score \in 40..59 -> "SUS"
    [] OTHER -> "REKT"

-----------------------------------------------------------------------------
(* C9 *)

\* an edge kept by the step, whose endpoints keep their selected tools,
\* keeps its recorded status
EdgeStatusStep ==
  \A e \in EdgeSet(edges) \cap EdgeSet(edges') :
     (/\ toolIdOf(nodes', e.source) = toolIdOf(nodes, e.source)
      /\ toolIdOf(nodes', e.target) = toolIdOf(nodes, e.target))
       => /\ e.id \in DOMAIN edgeVibes /\ e.id \in DOMAIN edgeVibes'
          /\ edgeVibes'[e.id].status = edgeVibes[e.id].status

-----------------------------------------------------------------------------
(* C10 *)

\* C10: the edge list holds no edge from a node to itself and no two edges
\* joining the same unordered pair of nodes.
C10_NoSelfLoopNoDuplicate ==
  /\ \A i \in DOMAIN edges : edges[i].source # edges[i].target
  /\ \A i \in DOMAIN edges : \A j \in DOMAIN edges :
       (i # j) => ~Joins(edges[i], edges[j].source, edges[j].target)

-----------------------------------------------------------------------------
(* Vocabulary of the report properties *)

Findings == report.findings

FindingsOfType(t) == {i \in DOMAIN Findings : Findings[i].type = t}

\* the rule ids a finding's evidence pack lists as its fixes
FixesNamedBy(f) == {f.pack[1].fixRuleIds[k] : k \in DOMAIN f.pack[1].fixRuleIds}

IndexPacks == {evidenceIndex.entries[i] : i \in DOMAIN evidenceIndex.entries}

-----------------------------------------------------------------------------
(* C11 *)

\* C11: every fix finding of a report has a ruleId listed in the fixRuleIds
\* of a risk pack whose risk finding is in the same report; a report without
\* risk findings has no fix finding, whatever fix packs the index holds.
C11_FixGating ==
  report.built =>
    /\ \A i \in FindingsOfType("fix") :
          \E j \in FindingsOfType("risk") : Findings[i].ruleId \in FixesNamedBy(Findings[j])
    /\ FindingsOfType("risk") = {} => FindingsOfType("fix") = {}

\* a report that shows one fix and withholds another fix pack of the index
C11_Witness ==
  /\ report.built
  /\ FindingsOfType("fix") # {}
  /\ \E p \in IndexPacks :
        p.kind = "fix" /\ \A i \in FindingsOfType("fix") : Findings[i].ruleId # p.ruleId

-----------------------------------------------------------------------------
(* C12 *)

-----------------------------------------------------------------------------
(* C17 *)

TypeOrder == <<"collision", "risk", "fix", "positive", "low-score">>

TypeRank(t) == CHOOSE k \in DOMAIN TypeOrder : TypeOrder[k] = t

-----------------------------------------------------------------------------
(* C18 *)

\* the report built from the engine's current snapshot
CurrentFindings == buildReportData(getSnapshot, evidenceIndex).findings

CollisionFindingsNow == SelectSeq(CurrentFindings, LAMBDA f : f.type = "collision")

CollisionEdgesNow ==
  SelectSeq(edges, LAMBDA e : Entry(edgeVibes, e.id) # <<>> /\ edgeVibes[e.id].status = "COLLISION")

MutualFriction(e) ==
  /\ Resolved(e.source) /\ Resolved(e.target)
  /\ Frictions(nodes[e.source], nodes[e.target])
  /\ Frictions(nodes[e.target], nodes[e.source])

-----------------------------------------------------------------------------
(* C19 *)

LowScoreFindingsNow == SelectSeq(CurrentFindings, LAMBDA f : f.type = "low-score")

HasStatus(n, S) == Entry(nodeVibes, n) # <<>> /\ nodeVibes[n].status \in S

\* C19: the report holds exactly one low-score finding for each node whose
\* status is SUS or REKT and none for any other node, in ascending score
\* order, with severity high for REKT and medium for SUS.
C19_LowScoreFindings ==
  /\ \A n \in DOMAIN nodes :
        Cardinality({i \in DOMAIN LowScoreFindingsNow : LowScoreFindingsNow[i].what = <<n>>})
          = IF HasStatus(n, {"SUS", "REKT"}) THEN 1 ELSE 0
  /\ \A i \in DOMAIN LowScoreFindingsNow :
        LET n == LowScoreFindingsNow[i].what[1]
        IN /\ n \in DOMAIN nodes
           /\ HasStatus(n, {"REKT"}) => LowScoreFindingsNow[i].severity = "high"
           /\ HasStatus(n, {"SUS"}) => LowScoreFindingsNow[i].severity = "medium"
  /\ \A i \in DOMAIN LowScoreFindingsNow, j \in DOMAIN LowScoreFindingsNow :
        i < j => nodeVibes[LowScoreFindingsNow[i].what[1]].score
                   <= nodeVibes[LowScoreFindingsNow[j].what[1]].score

\* a REKT node and a SUS node are reported, worst first, and a node of a
\* higher tier is not
C19_Witness ==
  /\ Len(LowScoreFindingsNow) = 2
  /\ LowScoreFindingsNow[1].severity = "high"
  /\ LowScoreFindingsNow[2].severity = "medium"
  /\ nodeVibes[LowScoreFindingsNow[1].what[1]].score < nodeVibes[LowScoreFindingsNow[2].what[1]].score
  /\ \E n \in DOMAIN nodes : HasStatus(n, {"GIGA", "SOLID"})

-----------------------------------------------------------------------------
(* C20 *)

\* C20: every risk finding and every fix finding has the severity its
\* evidence pack declares, and every positive finding has severity info.
C20_SeverityFromPack ==
  report.built =>
    \A i \in DOMAIN Findings :
       /\ Findings[i].type \in {"risk", "fix"} => Findings[i].severity = Findings[i].pack[1].severity
       /\ Findings[i].type = "positive" => Findings[i].severity = "info"

-----------------------------------------------------------------------------
(* Vocabulary of the share codec properties *)

Reverse(seq) == [i \in DOMAIN seq |-> seq[Len(seq) + 1 - i]]

Occurrences(seq, x) == Cardinality({i \in DOMAIN seq : seq[i] = x})

\* a and b hold the same items the same number of times
SameItems(a, b) ==
  /\ Len(a) = Len(b)
  /\ \A i \in DOMAIN a : Occurrences(a, a[i]) = Occurrences(b, a[i])

NodesAscending(ns) ==
  \A i \in DOMAIN ns, j \in DOMAIN ns : i < j => localeCompare(ns[i].id.s, ns[j].id.s) <= 0

EdgesAscending(es) ==
  \A i \in DOMAIN es, j \in DOMAIN es :
     i < j =>
       \/ localeCompare(es[i].source.s, es[j].source.s) < 0
       \/ /\ es[i].source = es[j].source
          /\ \/ localeCompare(es[i].target.s, es[j].target.s) < 0
             \/ /\ es[i].target = es[j].target
                /\ localeCompare(es[i].id.s, es[j].id.s) <= 0

WithinLimits ==
  Len(shareNodes) <= MAX_NODES /\ Len(shareEdges) <= MAX_EDGES /\ lzLength <= MAX_ENCODED_LENGTH

-----------------------------------------------------------------------------
(* C13 *)

\* C13: for node and edge lists within the limits (at most 100 nodes, at most
\* 300 edges, encoded length at most 5000) serializeGraph succeeds,
\* deserializeGraph of its output succeeds, and the decoded graph holds the
\* input nodes sorted by id and the input edges sorted by (source, target,
\* id), whatever the input order.
C13_RoundTrip ==
  (serialized.called /\ WithinLimits) =>
    /\ serialized.success
    /\ deserialized.called =>
         /\ deserialized.success
         /\ SameItems(deserialized.payload.graph.nodes.items, shareNodes)
         /\ NodesAscending(deserialized.payload.graph.nodes.items)
         /\ SameItems(deserialized.payload.graph.edges.items, shareEdges)
         /\ EdgesAscending(deserialized.payload.graph.edges.items)

-----------------------------------------------------------------------------
(* C14 *)

Reordered(seq, p) == [i \in DOMAIN seq |-> seq[p[i]]]

\* C14: serializeGraph returns the same result, hence the same encoded
\* string, for the lists reversed and, for the small graphs, for every
\* reordering of the node list and of the edge list.
C14_OrderIndependent ==
  serialized.called =>
    /\ serializeGraph(Reverse(shareNodes), Reverse(shareEdges)) = serialized
    /\ (shareNodes \in ListsOver(ShareNodePool) /\ shareEdges \in ListsOver(ShareEdgePool)) =>
         \A p \in Permutations(DOMAIN shareNodes), q \in Permutations(DOMAIN shareEdges) :
            serializeGraph(Reordered(shareNodes, p), Reordered(shareEdges, q)) = serialized

\* a graph whose three nodes and four edges are all given out of order was
\* serialized
C14_Witness ==
  /\ serialized.called /\ serialized.success
  /\ Len(shareNodes) = 3 /\ ~NodesAscending(shareNodes) /\ ~NodesAscending(Reverse(shareNodes))
  /\ Len(shareEdges) = 4 /\ ~EdgesAscending(shareEdges) /\ ~EdgesAscending(Reverse(shareEdges))

-----------------------------------------------------------------------------
(* C15 *)

\* C15: serializeGraph returns a failure that names the limit hit: the node
\* limit for more than 100 nodes, the edge limit for more than 300 edges
\* (both whatever the compressed length would be), the encoded-length limit
\* when the compressed string is longer than 5000; every success has at most
\* 100 nodes, 300 edges and an encoded length of at most 5000.
C15_SerializeLimits ==
  serialized.called =>
    /\ Len(shareNodes) > MAX_NODES =>
         ~serialized.success /\ serialized.error = "Too many nodes"
    /\ Len(shareEdges) > MAX_EDGES =>
         /\ ~serialized.success
         /\ Len(shareNodes) <= MAX_NODES => serialized.error = "Too many edges"
    /\ (Len(shareNodes) <= MAX_NODES /\ Len(shareEdges) <= MAX_EDGES
          /\ lzLength > MAX_ENCODED_LENGTH) =>
         ~serialized.success /\ serialized.error = "Encoded payload too large"
    /\ serialized.success =>
         /\ serialized.stats.nodeCount = Len(shareNodes) /\ Len(shareNodes) <= MAX_NODES
         /\ serialized.stats.edgeCount = Len(shareEdges) /\ Len(shareEdges) <= MAX_EDGES
         /\ serialized.encoded.len <= MAX_ENCODED_LENGTH

\* a graph of two nodes and 301 edges was refused although its compressed
\* form would have been short enough
C15_Witness ==
  /\ serialized.called /\ ~serialized.success
  /\ Len(shareNodes) = 2 /\ Len(shareEdges) = MAX_EDGES + 1
  /\ lzLength <= MAX_ENCODED_LENGTH

-----------------------------------------------------------------------------
(* C16 *)

NonEmptyStringAt(o, f) == f \in DOMAIN o /\ o[f].t = "string" /\ o[f].s # ""

NumberAt(o, f) == f \in DOMAIN o /\ o[f].t = "number"

\* a JavaScript object: a plain object or an array
ObjectAt(o, f) == f \in DOMAIN o /\ o[f].t \in {"object", "array"}

ArrayAt(o, f) == f \in DOMAIN o /\ o[f].t = "array"

WellFormedNode(n) ==
  /\ n.t = "object"
  /\ NonEmptyStringAt(n, "id")
  /\ NonEmptyStringAt(n, "type")
  /\ ObjectAt(n, "position") /\ NumberAt(n.position, "x") /\ NumberAt(n.position, "y")
  /\ ObjectAt(n, "data")

WellFormedEdge(e) ==
  /\ e.t = "object"
  /\ NonEmptyStringAt(e, "id")
  /\ NonEmptyStringAt(e, "source")
  /\ NonEmptyStringAt(e, "target")

WellFormedPayload(d) ==
  /\ d.t = "object"
  /\ "v" \in DOMAIN d /\ d.v = Num(1)
  /\ "graph" \in DOMAIN d /\ d.graph.t = "object"
  /\ ArrayAt(d.graph, "nodes") /\ Len(d.graph.nodes.items) <= MAX_NODES
  /\ ArrayAt(d.graph, "edges") /\ Len(d.graph.edges.items) <= MAX_EDGES
  /\ \A i \in DOMAIN d.graph.nodes.items : WellFormedNode(d.graph.nodes.items[i])
  /\ \A i \in DOMAIN d.graph.edges.items : WellFormedEdge(d.graph.edges.items[i])

\* C16: a success of deserializeGraph carries a payload of version 1 with at
\* most 100 nodes and 300 edges, every node with a non-empty string id and
\* type, a position with numeric x and y and a data object, every edge with
\* a non-empty string id, source and target; an input that is not the
\* encoding of such a payload gets a failure with an error message.
C16_DeserializeValidates ==
  deserialized.called =>
    /\ deserialized.success => WellFormedPayload(deserialized.payload)
    /\ ~deserialized.success => deserialized.error # ""
    /\ (encodedInput.text.kind # "json" \/ ~WellFormedPayload(encodedInput.text.doc))
         => ~deserialized.success

\* a data parameter no share link produced decodes to a payload with a node
\* and an edge and is accepted, and it is not in canonical order
C16_Witness ==
  /\ deserialized.called /\ deserialized.success
  /\ ~serialized.called
  /\ Len(deserialized.payload.graph.nodes.items) = 2
  /\ ~NodesAscending(deserialized.payload.graph.nodes.items)
  /\ Len(deserialized.payload.graph.edges.items) = 1

-----------------------------------------------------------------------------
(* C28 *)

CurrentEdgeIds == {edges[i].id : i \in DOMAIN edges}

\* C28: after any sequence of init, updateTool, connectEdge and removeEdge
\* calls, nodeVibes has entries only for nodes of the current graph and
\* edgeVibes only for edges of the current graph.
C28_OnlyCurrentIdsRecorded ==
  /\ DOMAIN nodeVibes \subseteq DOMAIN nodes
  /\ DOMAIN edgeVibes \subseteq CurrentEdgeIds

-----------------------------------------------------------------------------
(* C27 *)

Range(seq) == {seq[i] : i \in DOMAIN seq}

NoRepeats(seq) == \A i, j \in DOMAIN seq : seq[i] = seq[j] => i = j

\* the orders of a list
Orders(seq) ==
  {[i \in DOMAIN seq |-> seq[p[i]]] :
     p \in {q \in [DOMAIN seq -> DOMAIN seq] : \A i, j \in DOMAIN seq : q[i] = q[j] => i = j}}

\* C27: connectedComponent(buildAdjacency(edges), seeds) is the set of ids
\* reachable from a seed along edges in either direction, seeds included;
\* no id is pushed or shifted twice; every order of the seeds and of the
\* edges gives the same set; no seed gives the empty set.
C27_ConnectedComponent ==
  traversal.called =>
    /\ Range(traversal.seen) = Reach(edges, Range(bfsSeeds))
    /\ NoRepeats(traversal.pushed) /\ NoRepeats(traversal.visited)
    /\ Range(traversal.visited) = Range(traversal.seen)
    /\ \A es \in Orders(edges), ss \in Orders(bfsSeeds) :
         Range(connectedComponentRun(buildAdjacencyMap(es), ss).seen) = Range(traversal.seen)
    /\ bfsSeeds = <<>> => traversal.seen = <<>>
    /\ connectedComponent(buildAdjacency(edges), bfsSeeds) = Range(traversal.seen)

\* two seeds, one of them outside the graph, and a node reached over two
\* edges, one of them against its direction
C27_Witness ==
  /\ traversal.called
  /\ bfsSeeds = <<"n4", "n1">>
  /\ \E i, j \in DOMAIN edges :
       /\ edges[i].source = "n2" /\ edges[i].target = "n1"
       /\ edges[j].source = "n2" /\ edges[j].target = "n3"
  /\ Range(traversal.seen) = {"n1", "n2", "n3", "n4"}

-----------------------------------------------------------------------------
(* C25, C26, C30 *)

\* the suggestions that affect the node x
Affecting(x) == SelectSeq(suggestions.list, LAMBDA s : s.affectsNodeId = x)

\* s is an alternative for the endpoint that holds own, of category
\* category, the other endpoint holding other
ProperAlternative(s, category, own, other) ==
  /\ s.toolId \in DOMAIN registry
  /\ registry[s.toolId].category = category
  /\ s.toolId # own
  /\ other \in registry[s.toolId].best_with
  /\ other \notin registry[s.toolId].friction_with
  /\ s.toolId \notin registry[other].friction_with

\* C25: every alternative suggested for an endpoint of a collision edge is a
\* registry tool of that endpoint's category, other than the endpoint's
\* tool, that lists the other endpoint's tool in best_with and has no
\* friction with it in either direction.
C25_SuggestionsQualify ==
  suggestions.called =>
    LET ctx == suggestions.ctx
    IN \A i \in DOMAIN suggestions.list :
         LET s == suggestions.list[i]
         IN \/ /\ s.affectsNodeId = ctx.sourceNodeId
               /\ ProperAlternative(s, ctx.sourceCategory, ctx.sourceToolId, ctx.targetToolId)
            \/ /\ s.affectsNodeId = ctx.targetNodeId
               /\ ProperAlternative(s, ctx.targetCategory, ctx.targetToolId, ctx.sourceToolId)

\* alternatives are suggested for both endpoints while a candidate with
\* friction was left out
C25_Witness ==
  /\ suggestions.called
  /\ Len(Affecting("n1")) >= 2 /\ Len(Affecting("n2")) = 1
  /\ registry["drizzle"].category = "ORM"
  /\ "turso" \in registry["drizzle"].best_with
  /\ "drizzle" \in registry["turso"].friction_with

\* C26: at most 3 suggestions affect the source node and at most 3 the
\* target node of a collision edge.
C26_ThreePerSide ==
  suggestions.called =>
    /\ Len(Affecting(suggestions.ctx.sourceNodeId)) <= 3
    /\ Len(Affecting(suggestions.ctx.targetNodeId)) <= 3

\* C30: applying a suggestion generated for a collision edge, by
\* updateTool(affectsNodeId, toolId), leaves the edge with status NATIVE.
C30_AppliedSuggestionGivesNative ==
  (suggestions.called /\ suggestions.applied # <<>>) =>
    /\ selectedEdge.id \in DOMAIN edgeVibes
    /\ edgeVibes[selectedEdge.id].status = "NATIVE"

\* the target node's tool was swapped, on an edge where the friction was
\* declared by the target's old tool
C30_Witness ==
  /\ suggestions.called /\ suggestions.applied # <<>>
  /\ suggestions.applied[1].affectsNodeId = suggestions.ctx.targetNodeId
  /\ nodes[suggestions.ctx.targetNodeId] = suggestions.applied[1].toolId
  /\ suggestions.ctx.sourceToolId \in registry[suggestions.ctx.targetToolId].friction_with
  /\ edgeVibes[selectedEdge.id].status = "NATIVE"

-----------------------------------------------------------------------------
(* C29 *)

\* C29: buildManifest returns the same nodes array for every order of
\* snapshot.nodes, also when nodes have a category outside the five known
\* ones or none.
C29_ManifestNodesOrderIndependent ==
  Len(manifests) = 2 => manifests[1].manifest.nodes = manifests[2].manifest.nodes

-----------------------------------------------------------------------------
(* C22 *)

\* C22: canonicalizeUrl(canonicalizeUrl(u)) = canonicalizeUrl(u) for every
\* string u, including URLs whose path ends in more than one slash, URLs
\* without a scheme and strings that cannot be parsed as a URL.
C22_CanonicalizeIdempotent ==
  Len(urlResults) = 2 => urlResults[2] = urlResults[1]

-----------------------------------------------------------------------------
(* The quality gate of the evidence loader *)

\* the item counts as primary evidence: it has an excerpt and no invalidity note
PrimaryEvidence(item) == nonBlank(item.excerpt) /\ ~includesINVALID(item.note)

\* C23: a loaded pack none of whose evidence items has both a non-empty excerpt
\* and no invalidity note has confidence low and needsVerification true,
\* whatever the pack file declared
C23_NoPrimaryEvidenceForcedLow ==
  (loadedPack.called
     /\ \A i \in DOMAIN loadedPack.pack.evidence :
           ~PrimaryEvidence(loadedPack.pack.evidence[i]))
  => (loadedPack.pack.confidence = "low" /\ loadedPack.pack.needsVerification = "true")

\* a pack that declared high confidence and no flag, whose only items are an
\* overlong excerpt and an empty one, was loaded
C23_Witness ==
  /\ loadedPack.called
  /\ packFile.confidence = "high"
  /\ packFile.needsVerification = "undefined"
  /\ Len(packFile.evidence) = 2
  /\ \E i \in DOMAIN packFile.evidence :
        packFile.evidence[i].excerpt.words > excerptWordLimit /\ packFile.evidence[i].note = <<>>
  /\ \E i \in DOMAIN packFile.evidence : packFile.evidence[i].excerpt.words = 0
  /\ \A i \in DOMAIN loadedPack.pack.evidence : ~PrimaryEvidence(loadedPack.pack.evidence[i])

\* the excerpt of item i of the pack file is over the limit, and nothing else
\* is wrong with the item
Overlong(i) ==
  /\ packFile.evidence[i].excerpt.words > excerptWordLimit
  /\ packFile.evidence[i].sourceType \in VALID_SOURCE_TYPES
  /\ ~includesINVALID(packFile.evidence[i].note)

\* the pack file with the excerpt of item i brought within the limit
WithinLimit(i) == [packFile EXCEPT !.evidence[i].excerpt.words = excerptWordLimit]

\* item i of the pack file is in the loaded pack with a note containing "INVALID"
KeptInvalid(i) ==
  /\ Len(loadedPack.pack.evidence) = Len(packFile.evidence)
  /\ \E k \in DOMAIN loadedPack.pack.evidence :
        /\ loadedPack.pack.evidence[k].excerpt = packFile.evidence[i].excerpt
        /\ loadedPack.pack.evidence[k].sourceType = packFile.evidence[i].sourceType
        /\ includesINVALID(loadedPack.pack.evidence[k].note)
        /\ "INVALID: Excerpt exceeds 25 words" \in Range(loadedPack.pack.evidence[k].note)

\* another item of the pack file is valid once processed
OtherValid(i) ==
  \E j \in DOMAIN packFile.evidence :
     j # i /\ PrimaryEvidence(processEvidenceItem(packFile.evidence[j]))

\* another item of the pack file is valid once processed and is not a
\* community source
OtherValidNonCommunity(i) ==
  \E j \in DOMAIN packFile.evidence :
     /\ j # i
     /\ PrimaryEvidence(processEvidenceItem(packFile.evidence[j]))
     /\ packFile.evidence[j].sourceType # "community"

-----------------------------------------------------------------------------
(* C21 *)

\* the fields of the stored report that buildReportData returned
ReportOutput ==
  [timestamp |-> report.timestamp, globalVibe |-> report.globalVibe, tier |-> report.tier,
   findings |-> report.findings, swaps |-> report.swaps, manifest |-> report.manifest]

\* C21: for a report built with a supplied timestamp, buildReportData called
\* again with the same snapshot, registry, evidence index and timestamp, at
\* whatever the clock then reads and after whatever calls came before, can
\* return only the stored output, and buildReportMarkdown of it is the stored
\* Markdown.
C21_ReportDeterministic ==
  (report.built /\ report.given # Undefined) =>
    /\ ReportData(getSnapshot, reportNodeList, report.given, evidenceIndex) = {ReportOutput}
    /\ buildReportMarkdown(ReportOutput) = report.markdown
    /\ report.timestamp = report.given
    /\ report.manifest.generatedAt = report.given

\* a report with findings and a swap that offers an alternative was built
\* with a supplied timestamp, and the clock has moved on since
C21_Witness ==
  /\ report.built
  /\ report.given = FIXED_TIMESTAMP
  /\ clock > 0
  /\ Num(clock) # report.timestamp
  /\ report.findings # <<>>
  /\ \E i \in DOMAIN report.swaps : report.swaps[i].alternatives # <<>>

====
